---- MODULE Spec2Model ----
(***************************************************************************)
(* Model of six parts of arroyo.                                          *)
(*                                                                         *)
(* 1. The controller-side node scheduler                                   *)
(* (arroyo-controller/src/schedulers/mod.rs, NodeScheduler).               *)
(* The scheduling state (nodes, workers) lives behind one tokio Mutex.     *)
(* register_node, heartbeat_node and worker_finished hold the lock for     *)
(* their whole body; start_workers holds it across the RPCs to the node    *)
(* agents; stop_workers takes it once per step and releases it around the  *)
(* stop RPC.  The variable `call` is the frame of the handler that holds   *)
(* the lock, `stop` is the frame of the stop_workers call in progress.     *)
(* Time is in seconds.                                                     *)
(*                                                                         *)
(* 2. The event loop of a worker's operator task                           *)
(* (arroyo-macro/src/lib.rs), in the variable `task`.                      *)
(*                                                                         *)
(* 3. The process scheduler (schedulers/mod.rs, ProcessScheduler), its     *)
(* worker table and the tokio task of each child, in the variable `proc`.  *)
(*                                                                         *)
(* 4. The SSE source (arroyo-worker/src/connectors/sse.rs), in the         *)
(* variable `sse`; it reads the clock `now`.                               *)
(*                                                                         *)
(* 5. The error responses of the REST layer                                *)
(* (arroyo-api/src/rest_utils.rs), in the variable `resp`.                 *)
(*                                                                         *)
(* 6. The StartWorker request stream that NodeScheduler::start_workers     *)
(* sends to a node, in the variable `outbound`.                            *)
(*                                                                         *)
(* Each part has its own specification; the variables of the other parts   *)
(* stay at their initial value.                                            *)
(***************************************************************************)
EXTENDS Integers, Sequences, FiniteSets, TLC

\* ---------------------------------------------------------------- bounds
\* WorkerIds the node agents hand out during one run of the model.
MaxWorkers == 2
\* The clock stops at MaxTime; it advances in steps of TickStep seconds.
MaxTime == 60
TickStep == 30

\* ------------------------------------------------------- program constants
\* Duration::from_secs(30): the liveness window of a node.
HEARTBEAT_WINDOW == 30

\* ----------------------------------------------------------- input domains
NodeIds == {1, 2}
WorkerIds == 1..MaxWorkers
JobIds == {"j1", "j2"}
RunIds == {1, 2}
\* (job_id, run_id) of the StartPipelineReqs.
StartReqs == {<<"j1", 1>>, <<"j2", 2>>}
\* run_id: Option<i64> of stop_workers / workers_for_job; 0 stands for None.
NoRun == 0
\* req.task_slots of RegisterNodeReq.
TaskSlots == {8, 16}
\* start_pipeline_req.slots.
SlotRequests == {4, 20}
\* req.slots of WorkerFinishedReq.
FinishSlots == {4, 8, 12, 16}
\* req.addr of RegisterNodeReq.
Addrs == {"a"}

VARIABLES
    nodes,        \* NodeSchedulerState.nodes: NodeId -> NodeStatus
    workers,      \* NodeSchedulerState.workers: WorkerId -> NodeWorker
    now,          \* the monotonic clock (Instant::now())
    next_worker,  \* the next WorkerId a node agent allocates
    call,         \* frame of the handler holding the state lock
    stop,         \* frame of the stop_workers call in progress
    task,         \* a subtask of the worker: its operator's event loop
    proc,         \* the process scheduler: its table, its children, a call
    sse,          \* an SSE source task: its event stream and error window
    resp,         \* the REST layer: the error response last produced
    outbound      \* the StartWorker stream to a node: the frames yielded

vars ==
    <<nodes, workers, now, next_worker, call, stop, task, proc, sse, resp,
      outbound>>

\* ------------------------------------------------------------ map helpers
EmptyMap == [x \in {} |-> 0]

MapPut(m, k, v) == [x \in (DOMAIN m) \cup {k} |-> IF x = k THEN v ELSE m[x]]

MapRemove(m, k) == [x \in (DOMAIN m) \ {k} |-> m[x]]

RECURSIVE SumValues(_)
SumValues(m) ==
    IF DOMAIN m = {} THEN 0
    ELSE LET k == CHOOSE x \in DOMAIN m : TRUE
         IN  m[k] + SumValues(MapRemove(m, k))

\* state.nodes.values().map(|n| n.free_slots).sum()
TotalFree(ns) == SumValues([n \in DOMAIN ns |-> ns[n].free_slots])

\* ------------------------------------------------------------- NodeStatus
\* task_slots is a history field: the slots the entry was created with
\* (the amount NodeStatus::new adds to REGISTERED_SLOTS).
NewNodeStatus(id, slots, addr, t) ==
    [id |-> id, free_slots |-> slots, scheduled_slots |-> EmptyMap,
     addr |-> addr, last_heartbeat |-> t, task_slots |-> slots]

\* checked_sub: a panic when slots > free_slots.
take_slots(status, worker, slots) ==
    IF status.free_slots >= slots
    THEN [panic |-> FALSE,
          status |-> [status EXCEPT !.free_slots = @ - slots,
                                    !.scheduled_slots = MapPut(@, worker, slots)]]
    ELSE [panic |-> TRUE, status |-> status]

\* Mutant: the entry is removed but the slots are not given back.
release_slots_not_freed(status, worker_id, slots) ==
    IF worker_id \in DOMAIN status.scheduled_slots
    THEN [panic |-> status.scheduled_slots[worker_id] # slots,
          status |-> [status EXCEPT !.scheduled_slots = MapRemove(@, worker_id)]]
    ELSE [panic |-> FALSE, status |-> status]

\* The entry is removed before assert_eq! compares the counts.
release_slots(status, worker_id, slots) ==
    IF worker_id \in DOMAIN status.scheduled_slots
    THEN LET freed == status.scheduled_slots[worker_id]
             removed == [status EXCEPT !.scheduled_slots = MapRemove(@, worker_id)]
         IN  IF freed = slots
             THEN [panic |-> FALSE,
                   status |-> [removed EXCEPT !.free_slots = @ + slots]]
             ELSE [panic |-> TRUE, status |-> removed]
    ELSE [panic |-> FALSE, status |-> status]

\* ------------------------------------------------------ NodeSchedulerState
\* Mutant: the comparison of expire_nodes the wrong way round.
expire_nodes_reversed(ns, expiration_time) ==
    [n \in {m \in DOMAIN ns : ns[m].last_heartbeat <= expiration_time} |-> ns[n]]

expire_nodes(ns, expiration_time) ==
    [n \in {m \in DOMAIN ns : ns[m].last_heartbeat >= expiration_time} |-> ns[n]]

\* ------------------------------------------------------------------ frames
Idle == [op |-> "idle", pc |-> "idle"]

StopIdle == [pc |-> "idle", answers |-> EmptyMap]

\* The controller hosts no subtask.
NoTask == [pc |-> "none"]

\* The process scheduler, the SSE source and the REST layer are not part
\* of the run.
NoProc == [pc |-> "none"]

NoSse == [pc |-> "none"]

NoResp == [pc |-> "none"]

NoOutbound == [pc |-> "none"]

\* A call that has its result returns before anything else is looked at:
\* the return itself touches no shared state.
Settled == call.pc # "done" /\ stop.pc # "done"

\* Mutant: the handlers do not wait for the state lock.
LockNotTaken == Settled

\* No handler holds the state lock.
LockFree == call = Idle /\ Settled

Init ==
    /\ nodes = EmptyMap
    /\ workers = EmptyMap
    /\ now = 0
    /\ next_worker = 1
    /\ call = Idle
    /\ stop = StopIdle
    /\ task = NoTask
    /\ proc = NoProc
    /\ sse = NoSse
    /\ resp = NoResp
    /\ outbound = NoOutbound

\* Time passes, also while start_workers holds the lock across an RPC.
Tick ==
    /\ Settled
    /\ now + TickStep <= MaxTime
    /\ now' = now + TickStep
    /\ UNCHANGED <<nodes, workers, next_worker, call, stop, task, proc, sse, resp, outbound>>

\* start_workers returns and its lock guard is dropped.
Return ==
    /\ call.pc = "done"
    /\ call' = Idle
    /\ UNCHANGED <<nodes, workers, now, next_worker, stop, task, proc, sse, resp, outbound>>

\* ----------------------------------------------------------- register_node
\* Mutant: a registration replaces the entry of a NodeId in the table.
register_node_overwrites(ns, id, slots, addr, t) ==
    MapPut(ns, id, NewNodeStatus(id, slots, addr, t))

\* Entry::Vacant: a NodeId already in the table is left as it is.
register_node(ns, id, slots, addr, t) ==
    IF id \in DOMAIN ns THEN ns
    ELSE MapPut(ns, id, NewNodeStatus(id, slots, addr, t))

RegisterNode(id, slots, addr) ==
    /\ LockFree
    /\ nodes' = register_node(nodes, id, slots, addr, now)
    /\ UNCHANGED <<workers, now, next_worker, call, stop, task, proc, sse, resp, outbound>>

\* ---------------------------------------------------------- heartbeat_node
\* The Result the handler returns for node id in node table ns.
heartbeat_node_result(ns, id) ==
    IF id \in DOMAIN ns THEN "Ok" ELSE "NotFound"

\* Mutant: the heartbeat of one node refreshes every node.
heartbeat_node_refreshes_all(ns, id, t) ==
    IF id \in DOMAIN ns THEN [n \in DOMAIN ns |-> [ns[n] EXCEPT !.last_heartbeat = t]]
    ELSE ns

heartbeat_node(ns, id, t) ==
    IF id \in DOMAIN ns THEN [ns EXCEPT ![id].last_heartbeat = t] ELSE ns

HeartbeatNode(id) ==
    /\ LockFree
    /\ nodes' = heartbeat_node(nodes, id, now)
    /\ UNCHANGED <<workers, now, next_worker, call, stop, task, proc, sse, resp, outbound>>

\* --------------------------------------------------------- worker_finished
\* A failed assert_eq! in release_slots unwinds out of the handler: the
\* entry is already gone from scheduled_slots, free_slots is not increased
\* and state.workers.remove is not reached.  The tokio Mutex is not
\* poisoned, so the state stays as the panic left it.
worker_finished(ns, ws, node_id, worker_id, slots) ==
    LET known == node_id \in DOMAIN ns
        rel == IF known THEN release_slots(ns[node_id], worker_id, slots)
               ELSE [panic |-> FALSE]
    IN  [panic |-> rel.panic,
         nodes |-> IF known THEN [ns EXCEPT ![node_id] = rel.status] ELSE ns,
         workers |-> IF rel.panic THEN ws ELSE MapRemove(ws, worker_id)]

WorkerFinished(node_id, worker_id, slots) ==
    /\ LockFree
    /\ LET r == worker_finished(nodes, workers, node_id, worker_id, slots)
       IN  nodes' = r.nodes /\ workers' = r.workers
    /\ UNCHANGED <<now, next_worker, call, stop, task, proc, sse, resp, outbound>>

\* --------------------------------------------------------- workers_for_job
workers_for_job(ws, job_id, run_id) ==
    {w \in DOMAIN ws :
        /\ ws[w].job_id = job_id
        /\ ws[w].running
        /\ (run_id = NoRun \/ ws[w].run_id = run_id)}

\* ----------------------------------------------------------- start_workers
Min(a, b) == IF a <= b THEN a ELSE b

\* The filter of the placement loop; n.last_heartbeat.elapsed() is t - hb.
PlacementCandidates(ns, t) ==
    {n \in DOMAIN ns :
        ns[n].free_slots > 0 /\ t - ns[n].last_heartbeat < HEARTBEAT_WINDOW}

\* Mutant: min_by_key in place of max_by_key.
MinByFreeSlots(ns, cands) ==
    {n \in cands : \A m \in cands : ns[n].free_slots <= ns[m].free_slots}

\* max_by_key(|n| n.free_slots) over a HashMap's values: any node of
\* maximal free_slots, the iteration order being arbitrary.
MaxByFreeSlots(ns, cands) ==
    {n \in cands : \A m \in cands : ns[m].free_slots <= ns[n].free_slots}

\* Mutant: the node is filled whatever is still to schedule.
SlotsForThisOneAll(free_slots, to_schedule) == free_slots

SlotsForThisOne(free_slots, to_schedule) == Min(free_slots, to_schedule)

\* Mutant: the worker is keyed by the wrong field of the request.
CommittedWorkerIdOfRun(res_worker_id, run_id) == run_id

\* The key under which the controller records the worker a node started.
CommittedWorkerId(res_worker_id, run_id) == res_worker_id

\* Mutant: the error path forgets the slots already scheduled.
ReleaseNothing(ns, assigned) == [panic |-> FALSE, nodes |-> ns]

\* The map_err closures: release back the slots already scheduled.
RECURSIVE ReleaseAssigned(_, _)
ReleaseAssigned(ns, assigned) ==
    IF assigned = <<>> THEN [panic |-> FALSE, nodes |-> ns]
    ELSE LET a == Head(assigned)
             r == release_slots(ns[a.node], a.worker, a.slots)
             ns2 == [ns EXCEPT ![a.node] = r.status]
         IN  IF r.panic THEN [panic |-> TRUE, nodes |-> ns2]
             ELSE ReleaseAssigned(ns2, Tail(assigned))

\* Mutant: the capacity check off by one.
NotEnoughSlotsOrEqual(slots, free_slots) == slots >= free_slots

\* The capacity check: slots > free_slots.
NotEnoughSlots(slots, free_slots) == slots > free_slots

\* get_binaries fails: the call ends before it takes the lock.
StartCompilationNeeded ==
    /\ LockFree
    /\ call' = [op |-> "start_workers", pc |-> "done",
                result |-> "CompilationNeeded"]
    /\ UNCHANGED <<nodes, workers, now, next_worker, stop, task, proc, sse, resp, outbound>>

\* Mutant: expiry also drops the workers of the expired nodes.
StartWorkersBeginDropsWorkers(job_id, run_id, slots) ==
    /\ LockFree
    /\ LET live == expire_nodes(nodes, now - HEARTBEAT_WINDOW)
           kept == [w \in {v \in DOMAIN workers : workers[v].node_id \in DOMAIN live}
                      |-> workers[w]]
           free_slots == TotalFree(live)
           frame == [op |-> "start_workers", pc |-> "placing",
                     job_id |-> job_id, run_id |-> run_id, slots |-> slots,
                     to_schedule |-> slots, slots_assigned |-> <<>>,
                     pre_nodes |-> nodes, pre_workers |-> workers,
                     rpcs |-> 0,
                     result |-> "none", slots_needed |-> 0]
       IN  /\ nodes' = live
           /\ workers' = kept
           /\ call' = IF NotEnoughSlots(slots, free_slots)
                      THEN [frame EXCEPT !.pc = "done",
                                         !.result = "NotEnoughSlots",
                                         !.slots_needed = slots - free_slots]
                      ELSE frame
    /\ UNCHANGED <<now, next_worker, stop, task, proc, sse, resp, outbound>>

\* Lock, expire_nodes, capacity check.  pre_nodes, pre_workers and rpcs
\* are history fields of the frame.
StartWorkersBegin(job_id, run_id, slots) ==
    /\ LockFree
    /\ LET live == expire_nodes(nodes, now - HEARTBEAT_WINDOW)
           free_slots == TotalFree(live)
           frame == [op |-> "start_workers", pc |-> "placing",
                     job_id |-> job_id, run_id |-> run_id, slots |-> slots,
                     to_schedule |-> slots, slots_assigned |-> <<>>,
                     pre_nodes |-> nodes, pre_workers |-> workers,
                     rpcs |-> 0,
                     result |-> "none", slots_needed |-> 0]
       IN  /\ nodes' = live
           /\ call' = IF NotEnoughSlots(slots, free_slots)
                      THEN [frame EXCEPT !.pc = "done",
                                         !.result = "NotEnoughSlots",
                                         !.slots_needed = slots - free_slots]
                      ELSE frame
    /\ UNCHANGED <<workers, now, next_worker, stop, task, proc, sse, resp, outbound>>

Placing == call.pc = "placing"

\* No node passes the filter of the loop: unreachable!() panics.
StartUnreachable ==
    /\ Placing
    /\ Settled
    /\ PlacementCandidates(nodes, now) = {}
    /\ call' = [call EXCEPT !.pc = "done", !.result = "panic"]
    /\ UNCHANGED <<nodes, workers, now, next_worker, stop, task, proc, sse, resp, outbound>>

\* An RPC failure on the chosen node: `error` says where, connect or
\* start_worker; both closures release the slots taken so far.
StartRpcFailed(error) ==
    /\ Placing
    /\ Settled
    /\ \E n \in MaxByFreeSlots(nodes, PlacementCandidates(nodes, now)) :
         LET back == ReleaseAssigned(nodes, call.slots_assigned)
         IN  /\ nodes' = back.nodes
             /\ call' = [call EXCEPT !.pc = "done", !.rpcs = @ + 1,
                            !.result = IF back.panic THEN "panic" ELSE "Other"]
    /\ UNCHANGED <<workers, now, next_worker, stop, task, proc, sse, resp, outbound>>

StartConnectFailed == StartRpcFailed("connect")

StartWorkerFailed == StartRpcFailed("start_worker")

\* res.worker_id, the WorkerId in the node agent's StartWorkerResp.  The
\* agent allocates it; WorkerIds are unique within the lifetime of the
\* controller, so each reply carries an id not handed out before.
res_worker_id == next_worker

\* The node started the worker and replied with its WorkerId: take_slots,
\* record the worker, go round the loop (or return Ok).
StartWorkerOk ==
    /\ Placing
    /\ Settled
    /\ next_worker <= MaxWorkers
    /\ \E n \in MaxByFreeSlots(nodes, PlacementCandidates(nodes, now)) :
         LET node == nodes[n]
             slots_for_this_one == SlotsForThisOne(node.free_slots, call.to_schedule)
             worker_id == CommittedWorkerId(res_worker_id, call.run_id)
             taken == take_slots(node, worker_id, slots_for_this_one)
             left == call.to_schedule - slots_for_this_one
         IN  IF taken.panic
             THEN /\ call' = [call EXCEPT !.pc = "done", !.rpcs = @ + 1,
                                          !.result = "panic"]
                  /\ UNCHANGED <<nodes, workers>>
             ELSE /\ nodes' = [nodes EXCEPT ![n] = taken.status]
                  /\ workers' = MapPut(workers, worker_id,
                                  [job_id |-> call.job_id, node_id |-> n,
                                   run_id |-> call.run_id, running |-> TRUE])
                  /\ call' = [call EXCEPT
                        !.rpcs = @ + 1,
                        !.to_schedule = left,
                        !.slots_assigned = Append(@, [node |-> n,
                              worker |-> worker_id, slots |-> slots_for_this_one]),
                        !.pc = IF left > 0 THEN "placing" ELSE "done",
                        !.result = IF left > 0 THEN "none" ELSE "Ok"]
    /\ next_worker' = next_worker + 1
    /\ UNCHANGED <<now, stop, task, proc, sse, resp, outbound>>

\* ------------------------------------------------------------ stop_workers
\* What the stop RPC to a node agent can come to.
StopAnswers == {"connect_failed", "rpc_failed", "Ok", "NotFound", "StopFailed"}

\* Mutant: a node that cannot be reached fails the stop.
stop_worker_unreachable_fails(ws, ns, worker_id, force, answer) ==
    IF worker_id \notin DOMAIN ws THEN "Some"
    ELSE IF ws[worker_id].node_id \notin DOMAIN ns THEN "Some"
    ELSE IF answer \in {"connect_failed", "rpc_failed"} THEN "Err"
    ELSE IF answer = "NotFound" /\ ~force THEN "Err"
    ELSE IF answer = "StopFailed" THEN "Err"
    ELSE "None"

\* Mutant: StopFailed and NotFound are taken for a worker that stopped.
stop_worker_failure_ignored(ws, ns, worker_id, force, answer) ==
    IF worker_id \notin DOMAIN ws THEN "Some"
    ELSE IF ws[worker_id].node_id \notin DOMAIN ns THEN "Some"
    ELSE IF answer \in {"connect_failed", "rpc_failed"} THEN "Some"
    ELSE IF answer \in {"NotFound", "StopFailed"} THEN "Some"
    ELSE "None"

\* NodeScheduler::stop_worker: "Some" is Ok(Some(worker_id)), "None" is
\* Ok(None), "Err" is a bail!.
stop_worker(ws, ns, worker_id, force, answer) ==
    IF worker_id \notin DOMAIN ws THEN "Some"
    ELSE IF ws[worker_id].node_id \notin DOMAIN ns THEN "Some"
    ELSE IF answer = "connect_failed" THEN "Some"
    ELSE IF answer = "rpc_failed" THEN "Some"
    ELSE IF answer = "NotFound" /\ ~force THEN "Err"
    ELSE IF answer = "StopFailed" THEN "Err"
    ELSE "None"

\* What the peer was seen to do, a history value: no RPC is made for a
\* worker or node that is not in the tables.
Observed(ws, ns, worker_id, answer) ==
    IF worker_id \notin DOMAIN ws THEN "no_worker"
    ELSE IF ws[worker_id].node_id \notin DOMAIN ns THEN "no_node"
    ELSE answer

\* workers_for_job under the lock, then one (lazy) future per worker; with
\* no worker to stop the loop is empty and the call is Ok(()).
\* matched and answers are history fields: the workers the call set out
\* to stop, and what each future awaited so far observed.
StopWorkersBegin(job_id, run_id, force) ==
    /\ LockFree
    /\ stop.pc = "idle"
    /\ LET ws == workers_for_job(workers, job_id, run_id)
       IN  stop' = [pc |-> IF ws = {} THEN "done" ELSE "loop",
                    force |-> force, matched |-> ws, pending |-> ws,
                    answers |-> EmptyMap,
                    result |-> IF ws = {} THEN "Ok" ELSE "none"]
    /\ UNCHANGED <<nodes, workers, now, next_worker, call, task, proc, sse, resp, outbound>>

\* f.await of the next future and the arm that handles its result.  The
\* future runs stop_worker only now (futures are lazy), and the Vec's
\* order is that of a HashMap iteration, so any pending worker can be
\* next.  Ok(Some(id)) clears the running flag, Ok(None) bails, Err is
\* returned by `?`; after the last future the call is Ok(()).
\* stop_worker drops the lock around the RPC and the Some arm takes it
\* again; clearing the flag commutes with every handler that can run in
\* between, so the step is taken as one.
StopWorkerCall(worker_id, answer) ==
    /\ LockFree
    /\ stop.pc = "loop"
    /\ worker_id \in stop.pending
    /\ LET r == stop_worker(workers, nodes, worker_id, stop.force, answer)
           rest == stop.pending \ {worker_id}
       IN  /\ workers' = IF r = "Some" /\ worker_id \in DOMAIN workers
                         THEN [workers EXCEPT ![worker_id].running = FALSE]
                         ELSE workers
           /\ stop' = [stop EXCEPT
                !.answers = MapPut(@, worker_id,
                                Observed(workers, nodes, worker_id, answer)),
                !.pending = rest,
                !.pc = IF r = "Some" /\ rest # {} THEN "loop" ELSE "done",
                !.result = IF r # "Some" THEN "Err"
                           ELSE IF rest = {} THEN "Ok" ELSE "none"]
    /\ UNCHANGED <<nodes, now, next_worker, call, task, proc, sse, resp, outbound>>

StopReturn ==
    /\ stop.pc = "done"
    /\ stop' = StopIdle
    /\ UNCHANGED <<nodes, workers, now, next_worker, call, task, proc, sse, resp, outbound>>

\* The handlers that read and write the node table and place workers.
NextPlace ==
    \/ Tick
    \/ Return
    \/ \E id \in NodeIds, s \in TaskSlots, a \in Addrs : RegisterNode(id, s, a)
    \/ \E id \in NodeIds : HeartbeatNode(id)
    \/ \E n \in NodeIds, w \in WorkerIds, s \in FinishSlots : WorkerFinished(n, w, s)
    \/ StartCompilationNeeded
    \/ \E q \in StartReqs, s \in SlotRequests : StartWorkersBegin(q[1], q[2], s)
    \/ StartUnreachable
    \/ StartConnectFailed
    \/ StartWorkerFailed
    \/ StartWorkerOk

\* A node agent reports worker w with the slot count it was started with.
HonestFinish(node_id, w, slots) ==
    (node_id \in DOMAIN nodes /\ w \in DOMAIN nodes[node_id].scheduled_slots)
        => slots = nodes[node_id].scheduled_slots[w]

NextStop ==
    \/ \E j \in JobIds, r \in RunIds \cup {NoRun}, f \in BOOLEAN : StopWorkersBegin(j, r, f)
    \/ \E w \in WorkerIds, a \in StopAnswers : StopWorkerCall(w, a)
    \/ StopReturn

\* The environment of the stop_workers calls: nodes of 16 slots, pipelines
\* of 4 slots, node agents that report a finished worker with the node and
\* the slot count it was started with.
NextPlaceStop ==
    \/ Tick
    \/ Return
    \/ \E id \in NodeIds, a \in Addrs : RegisterNode(id, 16, a)
    \/ \E w \in DOMAIN workers, s \in FinishSlots :
         /\ HonestFinish(workers[w].node_id, w, s)
         /\ WorkerFinished(workers[w].node_id, w, s)
    \/ \E q \in StartReqs : StartWorkersBegin(q[1], q[2], 4)
    \/ StartUnreachable
    \/ StartConnectFailed
    \/ StartWorkerFailed
    \/ StartWorkerOk

\* The node scheduler without stop_workers calls.
Spec == Init /\ [][NextPlace]_vars

\* stop_workers calls in every interleaving with the other handlers.
SpecStop == Init /\ [][NextPlaceStop \/ NextStop]_vars

\* ------------------------------------------------------------------ claims
StartFrame == call.op = "start_workers" /\ call.result # "CompilationNeeded"

StartDone(result) == call.pc = "done" /\ call.result = result

\* free_slots + sum(scheduled_slots) of a node status.
Accounted(status) == status.free_slots + SumValues(status.scheduled_slots)

\* The free slots the nodes left after expiry had when the call began.
FreeBefore == SumValues([n \in DOMAIN nodes |-> call.pre_nodes[n].free_slots])

SameSlots(n) ==
    /\ n \in DOMAIN call.pre_nodes
    /\ nodes[n].free_slots = call.pre_nodes[n].free_slots
    /\ nodes[n].scheduled_slots = call.pre_nodes[n].scheduled_slots

\* C1: every registered node has free_slots + sum(scheduled_slots) equal to
\* the task_slots it registered with, in every state.
C1_SlotAccounting ==
    \A n \in DOMAIN nodes : Accounted(nodes[n]) = nodes[n].task_slots

\* C2: when start_workers returns Other, every node's free_slots and
\* scheduled_slots are what they were before the call.
C2_FailureRestoresSlots ==
    StartDone("Other") => \A n \in DOMAIN nodes : SameSlots(n)

\* C2 witness: the call failed after an earlier node had slots committed.
C2_Witness ==
    /\ StartDone("Other")
    /\ Len(call.slots_assigned) > 0
    /\ call.rpcs = Len(call.slots_assigned) + 1

\* The workers a node holds that it did not hold before the call.
NewOn(n) ==
    [w \in (DOMAIN nodes[n].scheduled_slots)
             \ (DOMAIN call.pre_nodes[n].scheduled_slots)
        |-> nodes[n].scheduled_slots[w]]

\* C3: when start_workers returns Ok for s slots, the scheduled_slots
\* entries it added sum to s, the total of free slots fell by s, and the
\* worker table has one new entry {job, run, node, running} per worker.
C3_OkPlacesExactly ==
    StartDone("Ok") =>
        /\ SumValues([n \in DOMAIN nodes |-> SumValues(NewOn(n))]) = call.slots
        /\ FreeBefore - TotalFree(nodes) = call.slots
        /\ Cardinality((DOMAIN workers) \ (DOMAIN call.pre_workers))
              = Len(call.slots_assigned)
        /\ \A n \in DOMAIN nodes : \A w \in DOMAIN NewOn(n) :
              /\ w \notin DOMAIN call.pre_workers
              /\ w \in DOMAIN workers
              /\ workers[w] = [job_id |-> call.job_id, node_id |-> n,
                               run_id |-> call.run_id, running |-> TRUE]
        /\ \A w \in (DOMAIN workers) \ (DOMAIN call.pre_workers) :
              \E n \in DOMAIN nodes : w \in DOMAIN NewOn(n)

\* C3 witness: a successful call that placed workers on two nodes.
C3_Witness ==
    /\ StartDone("Ok")
    /\ Len(call.slots_assigned) = 2
    /\ call.slots_assigned[1].node # call.slots_assigned[2].node

\* C4: NotEnoughSlots is returned exactly when the request exceeds the free
\* slots of the nodes left after expiry; missing is the difference, no node
\* was contacted, and the nodes' slots and the worker table are unchanged.
C4_NotEnoughSlots ==
    StartFrame =>
        /\ (call.result = "NotEnoughSlots") <=> (call.slots > FreeBefore)
        /\ call.result = "NotEnoughSlots" =>
              /\ call.pc = "done"
              /\ call.slots_needed = call.slots - TotalFree(nodes)
              /\ call.rpcs = 0
              /\ call.slots_assigned = <<>>
              /\ workers = call.pre_workers
              /\ \A n \in DOMAIN nodes : SameSlots(n)

\* C4 witness: scenario 3 in small, 16 + 8 free slots cannot take 32; here
\* a request of 20 meets a single node.
C4_Witness ==
    /\ StartDone("NotEnoughSlots")
    /\ DOMAIN nodes # {}
    /\ call.slots_needed > 0

\* A step of the placement loop that committed a worker.
Committed == call.pc = "placing" /\ call'.rpcs = call.rpcs + 1
               /\ Len(call'.slots_assigned) = Len(call.slots_assigned) + 1

Eligible(n) ==
    /\ nodes[n].free_slots > 0
    /\ now - nodes[n].last_heartbeat < HEARTBEAT_WINDOW

GreedyStep ==
    Committed =>
        LET a == call'.slots_assigned[Len(call'.slots_assigned)]
        IN  /\ a.node \in DOMAIN nodes
            /\ Eligible(a.node)
            /\ \A m \in DOMAIN nodes :
                  Eligible(m) => nodes[m].free_slots <= nodes[a.node].free_slots
            /\ a.slots = Min(nodes[a.node].free_slots, call.to_schedule)
            /\ nodes'[a.node].free_slots = nodes[a.node].free_slots - a.slots
            /\ call'.to_schedule = call.to_schedule - a.slots

\* Scenario 2: a node of 16 and a node of 8 free slots, both alive.
TwoNodeScenario(big, small) ==
    /\ DOMAIN nodes = {big, small}
    /\ big # small
    /\ call.pre_nodes[big].free_slots = 16
    /\ call.pre_nodes[small].free_slots = 8
    /\ call.slots = 20

TwoNodeResult ==
    StartDone("Ok") =>
        \A big, small \in NodeIds :
            TwoNodeScenario(big, small) =>
                /\ Len(call.slots_assigned) = 2
                /\ call.slots_assigned[1].node = big
                /\ call.slots_assigned[1].slots = 16
                /\ call.slots_assigned[2].node = small
                /\ call.slots_assigned[2].slots = 4
                /\ nodes[big].free_slots = 0
                /\ nodes[small].free_slots = 4

\* C5: every placement step takes a node of maximal free_slots among the
\* nodes with free slots that heartbeated within 30 s and gives it
\* min(free_slots, still to place); 16 + 8 free and a request of 20 give
\* two workers, 16 on the first node and 4 on the second.
C5_GreedyPlacement == [][GreedyStep]_vars /\ []TwoNodeResult

\* C5 witness: scenario 2 has run to its end.
C5_Witness ==
    /\ StartDone("Ok")
    /\ \E big, small \in NodeIds : TwoNodeScenario(big, small)

\* The step that takes the lock, expires and checks the capacity.
Begins == call.pc = "idle" /\ call'.op = "start_workers"
             /\ call'.result # "CompilationNeeded"

Stale(n) == now - nodes[n].last_heartbeat > HEARTBEAT_WINDOW

ExpiryStep ==
    Begins =>
        LET live == {n \in DOMAIN nodes : ~Stale(n)}
            free == SumValues([n \in live |-> nodes[n].free_slots])
        IN  /\ \A n \in DOMAIN nodes : Stale(n) => n \notin DOMAIN nodes'
            /\ (call'.result = "NotEnoughSlots") <=> (call'.slots > free)
            /\ call'.result = "NotEnoughSlots" =>
                  call'.slots_needed = call'.slots - free

\* The nodes the call expired.
Expired == (DOMAIN call.pre_nodes) \ (DOMAIN nodes)

ExpiredStayOut ==
    StartFrame =>
        \A n \in Expired :
            /\ \A i \in 1..Len(call.slots_assigned) :
                  call.slots_assigned[i].node # n
            /\ heartbeat_node_result(nodes, n) = "NotFound"

\* C6: start_workers first removes every node whose heartbeat is older than
\* 30 s; such a node adds nothing to the capacity, gets no worker from the
\* call, and is absent afterwards (a heartbeat for it is NotFound).
C6_ExpiryFirst == [][ExpiryStep]_vars /\ []ExpiredStayOut

\* C6 witness: scenario 5, the only node was stale and the call returned
\* NotEnoughSlots with the node gone.
C6_Witness ==
    /\ StartDone("NotEnoughSlots")
    /\ Expired # {}
    /\ nodes = EmptyMap

\* C7: a WorkerId is a key of scheduled_slots of at most one node.
C7_WorkerOnOneNode ==
    \A w \in WorkerIds :
        Cardinality({n \in DOMAIN nodes :
                        w \in DOMAIN nodes[n].scheduled_slots}) <= 1

\* C7 witness: both nodes hold a worker.
C7_Witness ==
    \A n \in NodeIds :
        n \in DOMAIN nodes /\ DOMAIN nodes[n].scheduled_slots # {}

\* The stop_workers call has its result.
StopDone(result) == stop.pc = "done" /\ stop.result = result

\* The workers whose stop future the call has awaited.
Answered == DOMAIN stop.answers

Unreachable == {"connect_failed", "rpc_failed"}

Stopped(w) == w \in DOMAIN workers => ~workers[w].running

\* C8: when the node of every worker the call asked answered the stop RPC
\* with Ok, stop_workers returns Ok and each of those workers has
\* running = false.
C8_AllOkStops ==
    (stop.pc = "done" /\ Answered # {}
        /\ \A w \in Answered : stop.answers[w] = "Ok")
    => /\ stop.result = "Ok"
       /\ \A w \in Answered : w \in DOMAIN workers /\ ~workers[w].running

\* C9: a worker whose node could not be reached (connect or stop RPC
\* failed) is treated as stopped: its running flag is false from then on,
\* and a call that failed got a status answer from some other worker; a
\* call in which no node could be reached returns Ok.
C9_UnreachableIsStopped ==
    stop.pc # "idle" =>
        /\ \A w \in Answered : stop.answers[w] \in Unreachable => Stopped(w)
        /\ stop.result = "Err" =>
              \E w \in Answered : stop.answers[w] \in {"Ok", "NotFound", "StopFailed"}
        /\ (stop.pc = "done" /\ Answered = stop.matched
              /\ \A w \in Answered : stop.answers[w] \in Unreachable)
           => stop.result = "Ok"

\* C9 witness: the call returned Ok after a connect failure, and the worker
\* is still in the table, not running.
C9_Witness ==
    /\ StopDone("Ok")
    /\ \E w \in Answered :
          /\ stop.answers[w] = "connect_failed"
          /\ w \in DOMAIN workers
          /\ ~workers[w].running
    /\ \E w \in Answered : stop.answers[w] = "rpc_failed"

\* The answers that are fatal to the call.
Fatal(w) ==
    \/ stop.answers[w] = "StopFailed"
    \/ stop.answers[w] = "NotFound" /\ ~stop.force

\* C10: a StopFailed answer (whatever force is) or a NotFound answer with
\* force = false makes stop_workers return an error, and the worker that
\* got the answer is still running in the worker table.
C10_FatalAnswers ==
    stop.pc # "idle" =>
        \A w \in Answered :
            Fatal(w) => /\ StopDone("Err")
                        /\ w \in DOMAIN workers
                        /\ workers[w].running

\* C10 witness: StopFailed under force = true, after another worker of the
\* job was taken for stopped.
C10_Witness ==
    /\ StopDone("Err")
    /\ stop.force
    /\ \E w \in Answered : stop.answers[w] = "StopFailed"
    /\ \E w \in Answered : stop.answers[w] \in Unreachable

\* C10 witness, second case: NotFound without force.
C10_NotFoundCase ==
    /\ StopDone("Err")
    /\ ~stop.force
    /\ \E w \in Answered : stop.answers[w] = "NotFound"

\* C11: a NotFound answer under force = true is taken for a stopped worker:
\* the worker's running flag is false from then on, and a call that failed
\* got a fatal answer (StopFailed) from some worker.
C11_ForcedNotFoundStops ==
    (stop.pc # "idle" /\ stop.force) =>
        \A w \in Answered :
            stop.answers[w] = "NotFound" =>
                /\ Stopped(w)
                /\ stop.result = "Err" =>
                      \E v \in Answered : stop.answers[v] = "StopFailed"

\* Worker w is recorded on node n with `slots` slots.
Recorded(n, w, slots) ==
    /\ n \in DOMAIN nodes
    /\ w \in DOMAIN nodes[n].scheduled_slots
    /\ nodes[n].scheduled_slots[w] = slots

\* What a worker_finished(n, w, slots) step is to do to the tables.
FinishedEffect(n, w, slots) ==
    /\ DOMAIN nodes' = DOMAIN nodes
    /\ nodes'[n].free_slots = nodes[n].free_slots + slots
    /\ DOMAIN nodes'[n].scheduled_slots = (DOMAIN nodes[n].scheduled_slots) \ {w}
    /\ \A v \in DOMAIN nodes'[n].scheduled_slots :
          nodes'[n].scheduled_slots[v] = nodes[n].scheduled_slots[v]
    /\ nodes'[n].addr = nodes[n].addr
    /\ nodes'[n].last_heartbeat = nodes[n].last_heartbeat
    /\ \A m \in (DOMAIN nodes) \ {n} : nodes'[m] = nodes[m]
    /\ DOMAIN workers' = (DOMAIN workers) \ {w}
    /\ \A v \in DOMAIN workers' : workers'[v] = workers[v]

\* C12: worker_finished(node, w, n) for a worker recorded on that node with
\* n slots adds n to the node's free_slots, removes w from its
\* scheduled_slots and from the worker table and changes no other node and
\* no other worker, whether w was running or stopped.
C12_FinishedReleases ==
    [][\A n \in NodeIds, w \in WorkerIds, slots \in FinishSlots :
          (Recorded(n, w, slots) /\ WorkerFinished(n, w, slots))
              => FinishedEffect(n, w, slots)]_vars

\* C12 witness: a worker that was taken for stopped (running = false) has
\* finished since, while the other worker of the job still holds its slots.
C12_Witness ==
    /\ stop.pc = "loop"
    /\ \E w \in Answered :
          /\ stop.answers[w] \in Unreachable
          /\ w \notin DOMAIN workers
          /\ \A n \in DOMAIN nodes : w \notin DOMAIN nodes[n].scheduled_slots
    /\ \E n \in DOMAIN nodes : nodes[n].free_slots = 12
    /\ \A n \in DOMAIN nodes : Accounted(nodes[n]) = nodes[n].task_slots

\* C13: a second delivery of the same worker_finished(node, w, n) leaves
\* the nodes and the worker table as the first delivery left them and
\* raises no assertion.
C13_FinishedIdempotent ==
    [][\A n \in NodeIds, w \in WorkerIds, slots \in FinishSlots :
          WorkerFinished(n, w, slots) =>
              LET again == worker_finished(nodes', workers', n, w, slots)
              IN  /\ ~again.panic
                  /\ again.nodes = nodes'
                  /\ again.workers = workers']_vars

\* Worker w is recorded on node n with a count other than `slots`.
Mismatched(n, w, slots) ==
    /\ n \in DOMAIN nodes
    /\ w \in DOMAIN nodes[n].scheduled_slots
    /\ nodes[n].scheduled_slots[w] # slots

\* C14: a release for worker w with a count other than the recorded one
\* fails the assertion, adds nothing to free_slots, and leaves the node with
\* free_slots + sum(scheduled_slots) equal to its capacity.
C14_MismatchKeepsAccounting ==
    [][\A n \in NodeIds, w \in WorkerIds, slots \in FinishSlots :
          (Mismatched(n, w, slots) /\ WorkerFinished(n, w, slots)) =>
              /\ worker_finished(nodes, workers, n, w, slots).panic
              /\ nodes'[n].free_slots = nodes[n].free_slots
              /\ Accounted(nodes'[n]) = Accounted(nodes[n])]_vars

\* Addresses a RegisterNodeReq can carry, registered before or not.
AnyAddrs == Addrs \cup {"b"}

\* register_node for a NodeId in the table returns the table as it is.
ReRegisterKeeps ==
    \A id \in DOMAIN nodes, slots \in TaskSlots, a \in AnyAddrs :
        register_node(nodes, id, slots, a, now) = nodes

\* A register_node step changes nothing for a NodeId in the table and
\* creates the entry of an absent one.
RegisterStep ==
    \A id \in NodeIds, slots \in TaskSlots, a \in Addrs :
        RegisterNode(id, slots, a) =>
            IF id \in DOMAIN nodes THEN UNCHANGED vars
            ELSE /\ DOMAIN nodes' = (DOMAIN nodes) \cup {id}
                 /\ nodes'[id].free_slots = slots
                 /\ nodes'[id].scheduled_slots = EmptyMap
                 /\ nodes'[id].addr = a
                 /\ nodes'[id].last_heartbeat = now
                 /\ \A m \in DOMAIN nodes : nodes'[m] = nodes[m]
                 /\ UNCHANGED <<workers, now, next_worker, call, stop>>

\* C15: register_node of a NodeId in the node table (with any task_slots
\* and addr) leaves the node and all other state unchanged; register_node
\* of an absent NodeId creates it with free_slots = task_slots and no
\* scheduled workers.
C15_RegisterIdempotent == []ReRegisterKeeps /\ [][RegisterStep]_vars

\* C15 witness: a registered node that holds a worker and whose heartbeat
\* is older than the clock, so that a second registration would show.
C15_Witness ==
    /\ LockFree
    /\ \E id \in DOMAIN nodes :
          /\ nodes[id].free_slots < nodes[id].task_slots
          /\ nodes[id].scheduled_slots # EmptyMap
          /\ nodes[id].last_heartbeat < now
          /\ \E slots \in TaskSlots : slots # nodes[id].task_slots

\* heartbeat_node: Ok for a node in the table, with only that node's
\* last_heartbeat set to the clock; NotFound and no change otherwise.
HeartbeatEffect ==
    \A id \in NodeIds :
        LET after == heartbeat_node(nodes, id, now)
        IN  IF id \in DOMAIN nodes
            THEN /\ heartbeat_node_result(nodes, id) = "Ok"
                 /\ DOMAIN after = DOMAIN nodes
                 /\ after[id].last_heartbeat = now
                 /\ after[id].free_slots = nodes[id].free_slots
                 /\ after[id].scheduled_slots = nodes[id].scheduled_slots
                 /\ after[id].addr = nodes[id].addr
                 /\ \A m \in (DOMAIN nodes) \ {id} : after[m] = nodes[m]
            ELSE /\ heartbeat_node_result(nodes, id) = "NotFound"
                 /\ after = nodes

\* A heartbeat_node step touches the node table only.
HeartbeatStep ==
    \A id \in NodeIds :
        HeartbeatNode(id) => UNCHANGED <<workers, now, next_worker, call, stop>>

\* A node leaves the table only when a start_workers call begins, and only
\* if its last heartbeat is more than 30 s old.
EvictOnlyStale ==
    \A n \in DOMAIN nodes :
        n \notin DOMAIN nodes' => (Begins /\ Stale(n))

\* C16: heartbeat_node for a registered node returns Ok and sets only that
\* node's last_heartbeat to the current time, and a node whose last
\* heartbeat is at most 30 s old is never evicted; for a node not in the
\* table it returns NotFound and changes nothing.
C16_Heartbeat ==
    /\ []HeartbeatEffect
    /\ [][HeartbeatStep /\ EvictOnlyStale]_vars

\* C16 witness: a start_workers call evicted a node, so that a heartbeat
\* for it is NotFound, and kept a node whose heartbeat was exactly 30 s old.
C16_Witness ==
    /\ StartFrame
    /\ Expired # {}
    /\ \E n \in DOMAIN nodes :
          /\ n \in DOMAIN call.pre_nodes
          /\ call.pre_nodes[n].last_heartbeat > 0
          /\ now - call.pre_nodes[n].last_heartbeat = HEARTBEAT_WINDOW
    /\ \A n \in Expired : heartbeat_node_result(nodes, n) = "NotFound"

\* The step is a worker_finished for worker w.
FinishOf(w) ==
    \E n \in NodeIds, slots \in FinishSlots : WorkerFinished(n, w, slots)

\* The step is the stop of worker w by a stop_workers call.
StopOf(w) == \E a \in StopAnswers : StopWorkerCall(w, a)

\* A worker leaves the table only by worker_finished and loses its running
\* flag only by a stop; nothing else changes its entry.
WorkerKept ==
    \A w \in DOMAIN workers :
        /\ w \notin DOMAIN workers' => FinishOf(w)
        /\ w \in DOMAIN workers' =>
              \/ workers'[w] = workers[w]
              \/ /\ StopOf(w)
                 /\ workers'[w] = [workers[w] EXCEPT !.running = FALSE]

\* The eviction step leaves the worker table as it is.
EvictionKeepsWorkers == Begins => workers' = workers

\* C17: evicting a node changes nothing in the worker table; a worker
\* placed on the evicted node stays in the table, running if it was, until
\* a worker_finished or a stop for it arrives.
C17_EvictionKeepsWorkers == [][EvictionKeepsWorkers /\ WorkerKept]_vars

\* C17 witness: a running worker whose node has been evicted.
C17_Witness ==
    \E w \in DOMAIN workers :
        /\ workers[w].running
        /\ workers[w].node_id \notin DOMAIN nodes

\* workers_for_job returns the running workers of the job (and run).
ForJobExact ==
    \A j \in JobIds, r \in RunIds \cup {NoRun}, w \in WorkerIds :
        w \in workers_for_job(workers, j, r) <=>
            /\ w \in DOMAIN workers
            /\ workers[w].job_id = j
            /\ workers[w].running
            /\ (r # NoRun => workers[w].run_id = r)

\* A worker whose node answered the stop RPC with Ok is in the table and is
\* not returned for any job and run.
StoppedNotReturned ==
    stop.pc # "idle" =>
        \A w \in Answered :
            stop.answers[w] = "Ok" =>
                /\ w \in DOMAIN workers
                /\ \A j \in JobIds, r \in RunIds \cup {NoRun} :
                      w \notin workers_for_job(workers, j, r)

\* C18: workers_for_job(job, run?) returns exactly the workers of the table
\* whose job matches, whose run matches when one is given and whose running
\* flag is true; a worker stopped successfully is no longer returned and
\* is still in the worker table.
C18_WorkersForJob == ForJobExact /\ StoppedNotReturned

\* ------------------------------------------------- worker operator runtime
\* The event loop that the process_fn / co_process_fn macro generates for a
\* task with inputs (arroyo-macro/src/lib.rs).  A task is single-threaded:
\* one loop iteration takes the next item of a partition in the reader,
\* handles it, and re-enqueues or parks the partition.  The control branch
\* of the select (handle_raw_control_message, by default a log line) leaves
\* the task as it is and is not a step of the model.

\* Messages the input queues of one task hold in all, at most.
MaxMsgs == 4

\* in_qs: the number of partitions of each logical input.
Shapes == {<<2>>, <<1, 1>>}

\* Watermark values.
WatermarkValues == {1, 2}

Msg(type, n, then_stop) == [type |-> type, n |-> n, then_stop |-> then_stop]

\* What an upstream task can put on a channel; a barrier's epoch is set by
\* its place in the channel.
Alphabet ==
    {Msg("Record", 0, FALSE), Msg("Barrier", 0, FALSE), Msg("Barrier", 0, TRUE),
     Msg("Stop", 0, FALSE), Msg("EndOfData", 0, FALSE)}
        \cup {Msg("Watermark", w, FALSE) : w \in WatermarkValues}

\* The number of barriers among the first k messages of q.
RECURSIVE BarriersUpTo(_, _)
BarriersUpTo(q, k) ==
    IF k = 0 THEN 0
    ELSE BarriersUpTo(q, k - 1) + (IF q[k].type = "Barrier" THEN 1 ELSE 0)

\* The k-th barrier of a channel is the barrier of epoch k.
WithEpochs(q) ==
    [k \in 1..Len(q) |->
        IF q[k].type = "Barrier" THEN [q[k] EXCEPT !.n = BarriersUpTo(q, k)]
        ELSE q[k]]

\* The ordering guarantees of a channel: watermarks do not decrease, and
\* the upstream task sends nothing after Stop or EndOfData.
ChannelOrder(q) ==
    /\ \A i, j \in 1..Len(q) :
          (i < j /\ q[i].type = "Watermark" /\ q[j].type = "Watermark")
              => q[i].n <= q[j].n
    /\ \A i \in 1..Len(q) : q[i].type \in {"Stop", "EndOfData"} => i = Len(q)

\* The barrier of an epoch is one and the same on every channel.
SameBarriers(qs) ==
    \A a, b \in DOMAIN qs : \A i \in 1..Len(qs[a]), j \in 1..Len(qs[b]) :
        (qs[a][i].type = "Barrier" /\ qs[b][j].type = "Barrier"
            /\ qs[a][i].n = qs[b][j].n) => qs[a][i].then_stop = qs[b][j].then_stop

RECURSIVE SumSeq(_)
SumSeq(sq) == IF sq = <<>> THEN 0 ELSE Head(sq) + SumSeq(Tail(sq))

\* in_qs.into_iter().flatten(): partitions are numbered from 0 across the
\* logical inputs.
Partitions(shape) == 0..(SumSeq(shape) - 1)

\* CheckpointCounter::new(n): no partition has delivered a barrier.
counter_new(parts) == [i \in parts |-> 0]

\* CheckpointCounter::all_clear.
all_clear(counter) == \A i \in DOMAIN counter : counter[i] = 0

\* CheckpointCounter::is_blocked.
is_blocked(counter, idx) == counter[idx] # 0

\* CheckpointCounter::mark: true when every partition has delivered the
\* barrier, and the counter is then reset.
mark(counter, idx, epoch) ==
    LET marked == [counter EXCEPT ![idx] = epoch]
    IN  IF \A i \in DOMAIN marked : marked[i] # 0
        THEN [done |-> TRUE, counter |-> counter_new(DOMAIN counter)]
        ELSE [done |-> FALSE, counter |-> marked]

\* Context::watermark: the minimum of the inputs' watermarks once every
\* input has one; 0 stands for None.
ctx_watermark(watermarks) ==
    IF \E i \in DOMAIN watermarks : watermarks[i] = 0 THEN 0
    ELSE CHOOSE w \in {watermarks[i] : i \in DOMAIN watermarks} :
            \A i \in DOMAIN watermarks : w <= watermarks[i]

\* The task as start_fn sets it up: every partition in the reader.
\* pos and log are history fields: how many items of each partition were
\* taken, and what the task did, in order.
NewTask(shape, qs) ==
    [pc |-> "running", shape |-> shape, in_qs |-> qs,
     pos |-> [i \in Partitions(shape) |-> 0],
     sel |-> Partitions(shape), blocked |-> {},
     counter |-> counter_new(Partitions(shape)), closed |-> {},
     watermarks |-> [i \in Partitions(shape) |-> 0],
     log |-> <<>>]

\* A log entry: what was done, for which partition (-1: none), with which
\* epoch or watermark.
Entry(kind, idx, n) == [kind |-> kind, idx |-> idx, n |-> n]

Emit(t, kind, idx, n) == [t EXCEPT !.log = Append(@, Entry(kind, idx, n))]

\* ProcessFnUtils::send_event / ctx.control_tx.send(CheckpointEvent{..}).
send_event(t, event_type, epoch) == Emit(t, event_type, -1, epoch)

\* ctx.broadcast(message): the message goes out on every output channel.
broadcast(t, type, n) == Emit(t, "broadcast " \o type, -1, n)

\* The operator method a record of logical input i goes to.
handle_fn(shape, i) ==
    IF Len(shape) = 1 THEN "process_element"
    ELSE IF i = 0 THEN "process_left" ELSE "process_right"

\* Mutant: the barrier goes downstream before the operator's checkpoint.
checkpoint_broadcast_first(t, barrier) ==
    LET t1 == broadcast(t, "Barrier", barrier.n)
        t2 == send_event(t1, "StartedCheckpointing", barrier.n)
        t3 == Emit(t2, "handle_checkpoint", -1, barrier.n)
        t4 == send_event(t3, "FinishedOperatorSetup", barrier.n)
        t5 == Emit(t4, "state.checkpoint", ctx_watermark(t.watermarks), barrier.n)
        t6 == send_event(t5, "FinishedSync", barrier.n)
    IN  [task |-> t6, stop |-> barrier.then_stop]

\* Mutant: then_stop is ignored.
checkpoint_never_stops(t, barrier) ==
    LET t1 == send_event(t, "StartedCheckpointing", barrier.n)
        t2 == Emit(t1, "handle_checkpoint", -1, barrier.n)
        t3 == send_event(t2, "FinishedOperatorSetup", barrier.n)
        t4 == Emit(t3, "state.checkpoint", ctx_watermark(t.watermarks), barrier.n)
        t5 == send_event(t4, "FinishedSync", barrier.n)
        t6 == broadcast(t5, "Barrier", barrier.n)
    IN  [task |-> t6, stop |-> FALSE]

\* checkpoint: events, handle_checkpoint, the state snapshot with the
\* current watermark (logged in idx), the barrier downstream; the result is
\* checkpoint_barrier.then_stop.
checkpoint(t, barrier) ==
    LET t1 == send_event(t, "StartedCheckpointing", barrier.n)
        t2 == Emit(t1, "handle_checkpoint", -1, barrier.n)
        t3 == send_event(t2, "FinishedOperatorSetup", barrier.n)
        t4 == Emit(t3, "state.checkpoint", ctx_watermark(t.watermarks), barrier.n)
        t5 == send_event(t4, "FinishedSync", barrier.n)
        t6 == broadcast(t5, "Barrier", barrier.n)
    IN  [task |-> t6, stop |-> barrier.then_stop]

\* handle_watermark_int; no timer is registered, and handle_watermark is
\* the default, which passes the watermark on.
handle_watermark_int(t, watermark) == broadcast(t, "Watermark", watermark)

\* Mutant: StartedAlignment is sent for every barrier.
handle_barrier_always_aligns(t, idx, barrier) ==
    LET t0 == Emit(t, "received barrier", idx, barrier.n)
        t1 == send_event(t0, "StartedAlignment", barrier.n)
        m == mark(t1.counter, idx, barrier.n)
        t2 == [t1 EXCEPT !.counter = m.counter]
    IN  IF m.done
        THEN LET c == checkpoint(t2, barrier)
             IN  [task |-> c.task,
                  outcome |-> IF c.stop THEN "Stop" ELSE "Continue"]
        ELSE [task |-> t2, outcome |-> "Continue"]

\* handle_control_message, the Barrier arm; the arrival of the barrier is
\* logged as the code's debug line "received barrier" does.
handle_barrier(t, idx, barrier) ==
    LET t0 == Emit(t, "received barrier", idx, barrier.n)
        t1 == IF all_clear(t.counter)
              THEN send_event(t0, "StartedAlignment", barrier.n) ELSE t0
        m == mark(t1.counter, idx, barrier.n)
        t2 == [t1 EXCEPT !.counter = m.counter]
    IN  IF m.done
        THEN LET c == checkpoint(t2, barrier)
             IN  [task |-> c.task,
                  outcome |-> IF c.stop THEN "Stop" ELSE "Continue"]
        ELSE [task |-> t2, outcome |-> "Continue"]

\* Mutant: the watermark of the partition goes downstream as it arrives,
\* whatever the other partitions have delivered.
handle_watermark_message_forwards(t, idx, watermark) ==
    LET t0 == Emit(t, "received Watermark", idx, watermark)
        t1 == [t0 EXCEPT !.watermarks[idx] = watermark]
    IN  [task |-> handle_watermark_int(
                      Emit(t1, "state.handle_watermark", -1, watermark),
                      watermark),
         outcome |-> "Continue"]

\* handle_control_message, the Watermark arm.
\* The arrival of the watermark is kept in the log (history).
handle_watermark_message(t, idx, watermark) ==
    LET t0 == Emit(t, "received Watermark", idx, watermark)
        t1 == [t0 EXCEPT !.watermarks[idx] = watermark]
        min == ctx_watermark(t1.watermarks)
    IN  [task |-> IF min # 0
                  THEN handle_watermark_int(
                           Emit(t1, "state.handle_watermark", -1, min), min)
                  ELSE t1,
         outcome |-> "Continue"]

\* handle_control_message, the Stop and EndOfData arms: marker is the
\* message type, outcome the ControlOutcome once every input is closed.
\* The arrival of the marker is kept in the log (history).
handle_close(t, idx, marker, outcome) ==
    LET t0 == Emit(t, "received " \o marker, idx, 0)
        t1 == [t0 EXCEPT !.closed = @ \cup {idx}]
    IN  IF Cardinality(t1.closed) = Cardinality(DOMAIN t.in_qs)
        THEN [task |-> broadcast(t1, marker, 0), outcome |-> outcome]
        ELSE [task |-> t1, outcome |-> "Continue"]

handle_control_message(t, idx, message) ==
    CASE message.type = "Barrier" -> handle_barrier(t, idx, message)
      [] message.type = "Watermark" -> handle_watermark_message(t, idx, message.n)
      [] message.type = "Stop" -> handle_close(t, idx, "Stop", "Stop")
      [] message.type = "EndOfData" -> handle_close(t, idx, "EndOfData", "Finish")

\* Mutant: a partition that delivered its barrier stays in the reader.
requeue_always(t, idx) == [t EXCEPT !.sel = @ \cup {idx}]

\* The end of a loop iteration: park the partition if the counter reports
\* it blocked; otherwise re-admit the parked ones when all is clear, and
\* put the partition back into the reader.
requeue(t, idx) ==
    IF is_blocked(t.counter, idx)
    THEN [t EXCEPT !.blocked = @ \cup {idx}]
    ELSE IF all_clear(t.counter) /\ t.blocked # {}
         THEN [t EXCEPT !.sel = @ \cup t.blocked \cup {idx}, !.blocked = {}]
         ELSE [t EXCEPT !.sel = @ \cup {idx}]

\* The loop is left: on_close, then TaskFinished on the control channel.
finish(t, pc) == [Emit(t, "TaskFinished", -1, 0) EXCEPT !.pc = pc]

\* One iteration of the loop for the next item of partition idx:
\* sel.next() takes the stream out of the reader, the item is routed by
\* idx / (in_partitions / handler_count) and handled.
iteration(t, idx) ==
    LET message == Head(t.in_qs[idx])
        in_partitions == Cardinality(DOMAIN t.in_qs)
        handler_count == Len(t.shape)
        taken == [t EXCEPT !.in_qs[idx] = Tail(@), !.pos[idx] = @ + 1,
                           !.sel = @ \ {idx}]
    IN  IF in_partitions \div handler_count = 0
        THEN [taken EXCEPT !.pc = "panic"]
        ELSE LET i == idx \div (in_partitions \div handler_count)
             IN  IF i >= handler_count
                 THEN [taken EXCEPT !.pc = "panic"]
                 ELSE IF message.type = "Record"
                 THEN requeue(Emit(taken, handle_fn(t.shape, i), idx,
                                   taken.pos[idx]), idx)
                 ELSE LET r == handle_control_message(taken, idx, message)
                      IN  CASE r.outcome = "Continue" -> requeue(r.task, idx)
                            [] r.outcome = "Stop" ->
                                 finish(broadcast(r.task, "Stop", 0), "stopped")
                            [] r.outcome = "Finish" ->
                                 finish(broadcast(r.task, "EndOfData", 0), "finished")

\* sel.next() yields an item of partition idx, of the given type.
TaskNext(idx, type) ==
    /\ task.pc = "running"
    /\ idx \in task.sel
    /\ task.in_qs[idx] # <<>>
    /\ Head(task.in_qs[idx]).type = type
    /\ task' = iteration(task, idx)
    /\ UNCHANGED <<nodes, workers, now, next_worker, call, stop, proc, sse, resp, outbound>>

TaskRecord(idx) == TaskNext(idx, "Record")

TaskBarrier(idx) == TaskNext(idx, "Barrier")

TaskWatermark(idx) == TaskNext(idx, "Watermark")

TaskStop(idx) == TaskNext(idx, "Stop")

TaskEndOfData(idx) == TaskNext(idx, "EndOfData")

\* start_fn with in_qs of some shape, whose channels will carry qs.
TaskInit ==
    /\ nodes = EmptyMap
    /\ workers = EmptyMap
    /\ now = 0
    /\ next_worker = 1
    /\ call = Idle
    /\ stop = StopIdle
    /\ proc = NoProc
    /\ sse = NoSse
    /\ resp = NoResp
    /\ outbound = NoOutbound
    /\ \E shape \in Shapes :
       \E n0 \in 0..MaxMsgs : \E n1 \in 0..(MaxMsgs - n0) :
       \E q0 \in [1..n0 -> Alphabet], q1 \in [1..n1 -> Alphabet] :
          LET qs == [i \in Partitions(shape) |->
                        WithEpochs(IF i = 0 THEN q0 ELSE q1)]
          IN  /\ \A i \in DOMAIN qs : ChannelOrder(qs[i])
              /\ SameBarriers(qs)
              /\ task = NewTask(shape, qs)

NextTask ==
    \/ \E idx \in Partitions(task.shape) : TaskRecord(idx)
    \/ \E idx \in Partitions(task.shape) : TaskBarrier(idx)
    \/ \E idx \in Partitions(task.shape) : TaskWatermark(idx)
    \/ \E idx \in Partitions(task.shape) : TaskStop(idx)
    \/ \E idx \in Partitions(task.shape) : TaskEndOfData(idx)

\* One task with inputs, from start_fn to the end of its event loop.
SpecTask == TaskInit /\ [][NextTask]_vars

\* ----------------------------------------------------------- task claims
Log == task.log

\* The log entry is the dispatch of a record to the operator.
IsRecord(e) == e.kind \in {"process_element", "process_left", "process_right"}

\* Partition p delivered its barrier of epoch E at place j of the log.
BarrierAt(j, p, E) ==
    Log[j].kind = "received barrier" /\ Log[j].idx = p /\ Log[j].n = E

\* Barrier(E) went downstream at place m of the log.
BroadcastAt(m, E) == Log[m].kind = "broadcast Barrier" /\ Log[m].n = E

\* The barriers of epoch E that partition p delivered before place k.
BarriersBefore(k, p, E) == {j \in 1..(k - 1) : BarrierAt(j, p, E)}

\* A record of a partition is dispatched after a barrier of the partition
\* only once the barrier went downstream, and by then every partition has
\* delivered exactly one barrier of that epoch.
AlignedDispatch ==
    \A k \in 1..Len(Log) :
        IsRecord(Log[k]) =>
            \A j \in 1..(k - 1) :
                (Log[j].kind = "received barrier" /\ Log[j].idx = Log[k].idx) =>
                    /\ \E m \in (j + 1)..(k - 1) : BroadcastAt(m, Log[j].n)
                    /\ \A p \in DOMAIN task.in_qs :
                          Cardinality(BarriersBefore(k, p, Log[j].n)) = 1

\* The records of one partition are dispatched in the order of the channel.
FifoDispatch ==
    \A j, k \in 1..Len(Log) :
        (j < k /\ IsRecord(Log[j]) /\ IsRecord(Log[k]) /\ Log[j].idx = Log[k].idx)
            => Log[j].n < Log[k].n

\* C19: between a partition's barrier of epoch E and the broadcast of
\* Barrier(E) no record of that partition is dispatched; every partition
\* has delivered exactly one barrier of E before a record that follows a
\* barrier of E is dispatched; records of a partition go in FIFO order.
C19_BarrierAlignment ==
    task.pc # "none" => (AlignedDispatch /\ FifoDispatch)

\* C19 witness: scenario 6 in small; a record that followed the barrier on
\* its partition was dispatched after the other partition's barrier
\* completed the epoch, and the other partition had a record dispatched
\* while the first was parked.
C19_Witness ==
    /\ task.pc = "running"
    /\ \E j, m, k \in 1..Len(Log) :
          /\ j < m /\ m < k
          /\ Log[j].kind = "received barrier"
          /\ BroadcastAt(m, Log[j].n)
          /\ IsRecord(Log[k]) /\ Log[k].idx = Log[j].idx
          /\ \E h, i \in (j + 1)..(m - 1) :
                /\ h < i
                /\ IsRecord(Log[h]) /\ Log[h].idx # Log[j].idx
                /\ Log[i].kind = "received barrier" /\ Log[i].idx # Log[j].idx

\* What the step added to the log.
Added == SubSeq(task'.log, Len(task.log) + 1, Len(task'.log))

Kinds(entries) == [k \in 1..Len(entries) |-> entries[k].kind]

\* The log of a checkpoint that ends the task.
StoppingCheckpoint ==
    <<"StartedCheckpointing", "handle_checkpoint", "FinishedOperatorSetup",
      "state.checkpoint", "FinishedSync", "broadcast Barrier",
      "broadcast Stop", "TaskFinished">>

\* The step takes a barrier from partition idx that completes the
\* alignment: every other partition has delivered its barrier.
Completes(idx) ==
    /\ task.pc = "running"
    /\ idx \in task.sel
    /\ task.in_qs[idx] # <<>>
    /\ Head(task.in_qs[idx]).type = "Barrier"
    /\ \A p \in (DOMAIN task.in_qs) \ {idx} : is_blocked(task.counter, p)
    /\ TaskBarrier(idx)

\* A then_stop barrier that completes the alignment: the whole checkpoint,
\* the barrier downstream, and the loop is left; no record in between.
StopAfterCheckpoint ==
    \A idx \in DOMAIN task.in_qs :
        (Completes(idx) /\ Head(task.in_qs[idx]).then_stop) =>
            /\ task'.pc = "stopped"
            /\ Len(Added) >= 8
            /\ Kinds(SubSeq(Added, Len(Added) - 7, Len(Added))) = StoppingCheckpoint
            /\ \A k \in 1..Len(Added) :
                  /\ ~IsRecord(Added[k])
                  /\ Added[k].kind \in {"StartedCheckpointing", "handle_checkpoint",
                        "FinishedOperatorSetup", "state.checkpoint", "FinishedSync",
                        "broadcast Barrier"}
                       => Added[k].n = Head(task.in_qs[idx]).n

\* A barrier without then_stop leaves the task running.
NoStopWithoutThenStop ==
    \A idx \in DOMAIN task.in_qs :
        (task.pc = "running" /\ TaskBarrier(idx)
            /\ ~Head(task.in_qs[idx]).then_stop) => task'.pc = "running"

\* A task that left its loop does nothing more.
LeftLoop == (task.pc \notin {"none", "running"}) => UNCHANGED task

\* C20: a then_stop barrier that completes the alignment makes the task
\* run the whole checkpoint, the broadcast of the barrier included, and
\* then leave its loop with no further record dispatched; a barrier with
\* then_stop = false never stops the task.
C20_ThenStop ==
    [][(task.pc # "none") =>
          (StopAfterCheckpoint /\ NoStopWithoutThenStop /\ LeftLoop)]_vars

\* C20 witness: the task stopped on a then_stop barrier while a record was
\* still waiting in an input channel.
C20_Witness ==
    /\ task.pc = "stopped"
    /\ Len(Log) >= 8
    /\ Kinds(SubSeq(Log, Len(Log) - 7, Len(Log))) = StoppingCheckpoint
    /\ \E p \in DOMAIN task.in_qs :
          \E k \in 1..Len(task.in_qs[p]) : task.in_qs[p][k].type = "Record"

\* Partition p delivered the marker before place k of the log.
ReceivedBefore(k, p, marker) ==
    \E j \in 1..(k - 1) : Log[j].kind = "received " \o marker /\ Log[j].idx = p

\* The task left its loop on a then_stop barrier: the log ends with the
\* barrier downstream, Stop downstream, TaskFinished.
StoppedOnBarrier ==
    /\ task.pc = "stopped"
    /\ Len(Log) >= 3
    /\ Log[Len(Log) - 2].kind = "broadcast Barrier"

\* The marker went downstream at place k, and not as the Stop that follows
\* the barrier of a then_stop checkpoint.
MarkerForwardedAt(k, marker) ==
    /\ Log[k].kind = "broadcast " \o marker
    /\ ~(k > 1 /\ Log[k - 1].kind = "broadcast Barrier")

\* C21: the task ends with outcome Stop only after Stop was received on
\* every input partition and with outcome Finish only after EndOfData was
\* received on every input partition; a marker goes downstream only once
\* it was received on every input partition, and it is that marker.
C21_CloseMarkers ==
    task.pc # "none" =>
        /\ task.pc = "finished" =>
              \A p \in DOMAIN task.in_qs : ReceivedBefore(Len(Log) + 1, p, "EndOfData")
        /\ (task.pc = "stopped" /\ ~StoppedOnBarrier) =>
              \A p \in DOMAIN task.in_qs : ReceivedBefore(Len(Log) + 1, p, "Stop")
        /\ \A k \in 1..Len(Log) : \A marker \in {"Stop", "EndOfData"} :
              MarkerForwardedAt(k, marker) =>
                  \A p \in DOMAIN task.in_qs : ReceivedBefore(k, p, marker)

\* The markers received so far are all of one kind.
OneKindOfMarker ==
    \A j, k \in 1..Len(Log) :
        (Log[j].kind \in {"received Stop", "received EndOfData"}
            /\ Log[k].kind \in {"received Stop", "received EndOfData"})
        => Log[j].kind = Log[k].kind

\* The places before k of the log where partition p delivered a watermark.
WatermarksBefore(k, p) ==
    {j \in 1..(k - 1) : Log[j].kind = "received Watermark" /\ Log[j].idx = p}

\* The latest watermark partition p delivered before place k (there is one).
LatestBefore(k, p) ==
    LET last == CHOOSE j \in WatermarksBefore(k, p) :
                    \A i \in WatermarksBefore(k, p) : i <= j
    IN  Log[last].n

\* The places of the log where a watermark went downstream.
Emissions == {k \in 1..Len(Log) : Log[k].kind = "broadcast Watermark"}

\* C22: every watermark that goes downstream is the minimum of the latest
\* watermarks of all input partitions at that moment, none goes downstream
\* before every partition has delivered one, and the watermarks sent never
\* decrease (the input watermarks of a partition never decrease).
C22_WatermarkIsMin ==
    task.pc # "none" =>
        /\ \A k \in Emissions :
              /\ \A p \in DOMAIN task.in_qs : WatermarksBefore(k, p) # {}
              /\ \E p \in DOMAIN task.in_qs : Log[k].n = LatestBefore(k, p)
              /\ \A p \in DOMAIN task.in_qs : Log[k].n <= LatestBefore(k, p)
        /\ \A j, k \in Emissions : j < k => Log[j].n <= Log[k].n

\* Two partitions with different latest watermarks: the smaller one went
\* downstream, and later a larger one.
C22_Witness ==
    /\ task.pc # "none"
    /\ Cardinality(DOMAIN task.in_qs) = 2
    /\ \E j, k \in Emissions :
          /\ j < k
          /\ Log[j].n < Log[k].n
          /\ \E p \in DOMAIN task.in_qs : Log[j].n < LatestBefore(j, p)

\* ========================================================================
\* The process scheduler (ProcessScheduler): one child process per group
\* of SLOTS_PER_NODE requested slots, one tokio task per child.

\* Children the scheduler spawns in one run.
MaxProcWorkers == 2

SLOTS_PER_NODE == 16

\* ProcessScheduler::new: worker_counter starts at 100.
WORKER_COUNTER_START == 100

\* Below 2^24 every integer is an f32.
F32_EXACT == 16777216

\* start_pipeline_req.slots.
ProcSlotRequests == {0, 20, 16777217}

\* job_id and run_id of stop_workers (NoRun: every run of the job).
ProcStopRequests == {<<"j1", NoRun>>, <<"j2", 2>>}

\* The WorkerIds one run can allocate.
ProcWorkerIds == WORKER_COUNTER_START..(WORKER_COUNTER_START + MaxProcWorkers - 1)

\* The distance between neighbouring f32 values at n.
RECURSIVE Ulp(_)
Ulp(n) == IF n < F32_EXACT THEN 1 ELSE 2 * Ulp(n \div 2)

\* `n as f32`: the nearest f32, ties to the even significand.
as_f32(n) ==
    LET u == Ulp(n)
        lo == (n \div u) * u
        r == n - lo
    IN  IF 2 * r < u THEN lo
        ELSE IF 2 * r > u THEN lo + u
        ELSE IF (lo \div u) % 2 = 0 THEN lo ELSE lo + u

\* (slots as f32 / SLOTS_PER_NODE as f32).ceil() as usize: the division by
\* 16.0 is exact, so the result is the least integer not below
\* as_f32(slots) / 16.
worker_count(slots) == (as_f32(slots) + SLOTS_PER_NODE - 1) \div SLOTS_PER_NODE

\* No call of start_workers / stop_workers is in progress.
ProcStartIdle == [pc |-> "idle"]

ProcStopIdle == [pc |-> "idle"]

\* ProcessScheduler::new. children and removed are history: the tokio task
\* and child of every worker spawned, and the WorkerIds taken out of the
\* table.
NewProcessScheduler ==
    [pc |-> "up", workers |-> EmptyMap, worker_counter |-> WORKER_COUNTER_START,
     children |-> EmptyMap, removed |-> {},
     start |-> ProcStartIdle, stop |-> ProcStopIdle]

ProcInit ==
    /\ nodes = EmptyMap
    /\ workers = EmptyMap
    /\ now = 0
    /\ next_worker = 1
    /\ call = Idle
    /\ stop = StopIdle
    /\ task = NoTask
    /\ sse = NoSse
    /\ resp = NoResp
    /\ outbound = NoOutbound
    /\ proc = NewProcessScheduler

ProcOthers == <<nodes, workers, now, next_worker, call, stop, task, sse, resp, outbound>>

\* No call has computed its result without having returned it: a call
\* returns in the step that ends its loop, before another call takes a
\* step.
ProcSettled ==
    /\ proc.pc = "up"
    /\ proc.start.pc # "done"
    /\ proc.stop.pc # "done"

\* start_workers / stop_workers returns its result.
ProcReturn ==
    /\ proc.pc = "up"
    /\ ~ProcSettled
    /\ proc' = [proc EXCEPT
                  !.start = IF @.pc = "done" THEN ProcStartIdle ELSE @,
                  !.stop = IF @.pc = "done" THEN ProcStopIdle ELSE @]
    /\ UNCHANGED ProcOthers

\* start_workers up to its loop: the worker count, the working directory,
\* get_binaries (an error is CompilationNeeded) and the two files.
ProcStartWorkersBegin(job_id, run_id, slots, binaries) ==
    /\ ProcSettled
    /\ proc.start.pc = "idle"
    /\ LET n == worker_count(slots)
           frame == [pc |-> "loop", job_id |-> job_id, run_id |-> run_id,
                     slots |-> slots, workers |-> n, i |-> 0,
                     slots_scheduled |-> 0, spawned |-> <<>>,
                     result |-> "none"]
       IN  proc' = [proc EXCEPT !.start =
                IF ~binaries
                THEN [frame EXCEPT !.pc = "done", !.result = "CompilationNeeded"]
                ELSE IF n = 0
                THEN [frame EXCEPT !.pc = "done", !.result = "Ok"]
                ELSE frame]
    /\ UNCHANGED ProcOthers

\* The tokio task start_workers spawns for a worker, before it has spawned
\* the child.
NewChildTask(slots_here) ==
    [state |-> "spawned", slots |-> slots_here, signalled |-> FALSE]

\* One iteration of the loop of start_workers: slots_here, a fresh
\* WorkerId, the record into the table, the task spawned; after the last
\* iteration the call returns Ok.
spawn_worker(p) ==
    LET f == p.start
        slots_here == Min(f.slots - f.slots_scheduled, SLOTS_PER_NODE)
        worker_id == p.worker_counter
        last == f.i + 1 = f.workers
    IN  [p EXCEPT
            !.worker_counter = @ + 1,
            !.workers = MapPut(@, worker_id,
                               [job_id |-> f.job_id, run_id |-> f.run_id]),
            !.children = MapPut(@, worker_id, NewChildTask(slots_here)),
            !.start = [f EXCEPT !.i = @ + 1,
                                !.slots_scheduled = @ + slots_here,
                                !.spawned = Append(@, slots_here),
                                !.pc = IF last THEN "done" ELSE "loop",
                                !.result = IF last THEN "Ok" ELSE "none"]]

ProcStartWorkersSpawn ==
    /\ ProcSettled
    /\ proc.start.pc = "loop"
    /\ proc.start.i < proc.start.workers
    /\ proc.worker_counter < WORKER_COUNTER_START + MaxProcWorkers
    /\ proc' = spawn_worker(proc)
    /\ UNCHANGED ProcOthers

\* The task of worker w spawns ./pipeline (the spawn is taken to succeed).
ChildSpawn(w) ==
    /\ proc.pc = "up"
    /\ w \in DOMAIN proc.children
    /\ proc.children[w].state = "spawned"
    /\ proc' = [proc EXCEPT !.children[w].state = "running"]
    /\ UNCHANGED ProcOthers

\* The child process of worker w exits on its own.
ChildExit(w) ==
    /\ proc.pc = "up"
    /\ w \in DOMAIN proc.children
    /\ proc.children[w].state = "running"
    /\ proc' = [proc EXCEPT !.children[w].state = "exited"]
    /\ UNCHANGED ProcOthers

\* The end of the task of worker w: state.remove(&WorkerId(worker_id)).
task_remove(p, w, how) ==
    [p EXCEPT !.workers = IF w \in DOMAIN @ THEN MapRemove(@, w) ELSE @,
              !.removed = IF w \in DOMAIN p.workers THEN @ \cup {w} ELSE @,
              !.children[w].state = how]

\* select!: child.wait() completes; then the record is removed.
TaskWait(w) ==
    /\ proc.pc = "up"
    /\ w \in DOMAIN proc.children
    /\ proc.children[w].state = "exited"
    /\ proc' = task_remove(proc, w, "reaped")
    /\ UNCHANGED ProcOthers

\* select!: the shutdown signal arrives; child.kill(), then the record is
\* removed.
TaskKill(w) ==
    /\ proc.pc = "up"
    /\ w \in DOMAIN proc.children
    /\ proc.children[w].state \in {"running", "exited"}
    /\ proc.children[w].signalled
    /\ proc' = task_remove(proc, w, "killed")
    /\ UNCHANGED ProcOthers

\* ProcessScheduler::workers_for_job.
proc_workers_for_job(ws, job_id, run_id) ==
    {w \in DOMAIN ws :
        ws[w].job_id = job_id /\ (run_id = NoRun \/ ws[w].run_id = run_id)}

\* stop_workers: the workers of the job when the call starts. snapshot is
\* history.
ProcStopWorkersBegin(job_id, run_id) ==
    /\ ProcSettled
    /\ proc.stop.pc = "idle"
    /\ LET ids == proc_workers_for_job(proc.workers, job_id, run_id)
       IN  proc' = [proc EXCEPT !.stop =
                [pc |-> IF ids = {} THEN "done" ELSE "loop",
                 job_id |-> job_id, run_id |-> run_id,
                 todo |-> ids, snapshot |-> ids,
                 result |-> IF ids = {} THEN "Ok" ELSE "none"]]
    /\ UNCHANGED ProcOthers

\* Mutant: the record is removed and dropped without sending the signal.
stop_one_no_signal(p, worker_id) ==
    LET f == p.stop
        left == f.todo \ {worker_id}
    IN  IF worker_id \notin DOMAIN p.workers
        THEN [p EXCEPT !.stop = [f EXCEPT !.pc = "done", !.result = "Ok"]]
        ELSE [p EXCEPT
                !.workers = MapRemove(@, worker_id),
                !.removed = @ \cup {worker_id},
                !.stop = [f EXCEPT !.todo = left,
                                   !.pc = IF left = {} THEN "done" ELSE "loop",
                                   !.result = IF left = {} THEN "Ok" ELSE "none"]]

\* One iteration of the loop of stop_workers, for the next worker_id of
\* the list (a HashMap's order): the record is removed and its shutdown
\* signal sent; a worker that is no longer in the table ends the call.
stop_one(p, worker_id) ==
    LET f == p.stop
        left == f.todo \ {worker_id}
    IN  IF worker_id \notin DOMAIN p.workers
        THEN [p EXCEPT !.stop = [f EXCEPT !.pc = "done", !.result = "Ok"]]
        ELSE [p EXCEPT
                !.workers = MapRemove(@, worker_id),
                !.removed = @ \cup {worker_id},
                !.children[worker_id].signalled = TRUE,
                !.stop = [f EXCEPT !.todo = left,
                                   !.pc = IF left = {} THEN "done" ELSE "loop",
                                   !.result = IF left = {} THEN "Ok" ELSE "none"]]

ProcStopWorker(worker_id) ==
    /\ ProcSettled
    /\ proc.stop.pc = "loop"
    /\ worker_id \in proc.stop.todo
    /\ proc' = stop_one(proc, worker_id)
    /\ UNCHANGED ProcOthers

NextProc ==
    \/ \E req \in StartReqs : \E slots \in ProcSlotRequests :
       \E binaries \in BOOLEAN :
          ProcStartWorkersBegin(req[1], req[2], slots, binaries)
    \/ ProcStartWorkersSpawn
    \/ \E w \in ProcWorkerIds : ChildSpawn(w)
    \/ \E w \in ProcWorkerIds : ChildExit(w)
    \/ \E w \in ProcWorkerIds : TaskWait(w)
    \/ \E w \in ProcWorkerIds : TaskKill(w)
    \/ \E req \in ProcStopRequests : ProcStopWorkersBegin(req[1], req[2])
    \/ \E w \in ProcWorkerIds : ProcStopWorker(w)
    \/ ProcReturn

\* One process scheduler with its children.
SpecProc == ProcInit /\ [][NextProc]_vars

\* tokio runs every spawned task: a task that can take a step takes it;
\* and a call that has its result returns it.
ProcFairness ==
    /\ \A w \in ProcWorkerIds :
          /\ WF_vars(ChildSpawn(w))
          /\ WF_vars(TaskWait(w))
          /\ WF_vars(TaskKill(w))
    /\ WF_vars(ProcReturn)

SpecProcLive == ProcInit /\ [][NextProc]_vars /\ ProcFairness

\* ------------------------------------------------ process scheduler claims

\* slots_scheduled before the k-th worker of the call was given its slots.
RECURSIVE SumFirst(_, _)
SumFirst(seq, k) == IF k = 0 THEN 0 ELSE seq[k] + SumFirst(seq, k - 1)

\* ceil(s / 16) in exact arithmetic.
ExactWorkerCount(s) == (s + SLOTS_PER_NODE - 1) \div SLOTS_PER_NODE

\* A call of start_workers that got its binaries.
ProcStarted ==
    /\ proc.pc = "up"
    /\ proc.start.pc # "idle"
    /\ proc.start.result # "CompilationNeeded"

\* C23: start_workers for s slots registers and spawns exactly ceil(s / 16)
\* workers, each with TASK_SLOTS = min(16, slots not yet assigned) and never
\* 0, and the TASK_SLOTS of the workers of the call sum to s.
C23_BucketedWorkers ==
    ProcStarted =>
        LET f == proc.start
        IN  /\ f.workers = ExactWorkerCount(f.slots)
            /\ \A k \in 1..Len(f.spawned) :
                  /\ f.spawned[k] =
                        Min(SLOTS_PER_NODE, f.slots - SumFirst(f.spawned, k - 1))
                  /\ f.spawned[k] > 0
            /\ f.result = "Ok" =>
                  /\ Len(f.spawned) = ExactWorkerCount(f.slots)
                  /\ SumFirst(f.spawned, Len(f.spawned)) = f.slots

\* Worker w has a record in the table.
InTable(w) == w \in DOMAIN proc.workers

\* The child of worker w has exited, or stop_workers has signalled w.
ExitedOrSignalled(w) ==
    /\ proc.pc = "up"
    /\ w \in DOMAIN proc.children
    /\ (proc.children[w].state = "exited" \/ proc.children[w].signalled)

\* The record of w is gone and its child is not running: the task saw it
\* exit, or killed it.
GoneAndNotRunning(w) ==
    /\ proc.pc = "up"
    /\ w \in DOMAIN proc.children
    /\ ~InTable(w)
    /\ proc.children[w].state \in {"reaped", "killed"}

\* A registered worker's record is in the table until its child has exited
\* or stop_workers has removed and signalled it; a removed WorkerId is not
\* in the table.
RecordKept ==
    proc.pc = "up" =>
        /\ \A w \in DOMAIN proc.children :
              ~InTable(w) => (proc.children[w].state = "reaped"
                                \/ proc.children[w].signalled)
        /\ DOMAIN proc.workers \subseteq DOMAIN proc.children
        /\ proc.removed \cap DOMAIN proc.workers = {}

\* C24: a worker's record is in the table from its registration until its
\* child exits or stop_workers removes it; once the child has exited or
\* stop_workers has signalled it, the record is eventually absent and the
\* child not left running; a removed WorkerId is never inserted again.
C24_RecordLifetime ==
    /\ []RecordKept
    /\ \A w \in ProcWorkerIds : ExitedOrSignalled(w) ~> GoneAndNotRunning(w)

\* One worker was reaped after its child exited, another killed after
\* stop_workers signalled it while it ran; both records are gone.
C24_Witness ==
    /\ proc.pc = "up"
    /\ \E v, w \in DOMAIN proc.children :
          /\ proc.children[v].state = "reaped" /\ ~proc.children[v].signalled
          /\ proc.children[w].state = "killed"
          /\ ~InTable(v) /\ ~InTable(w)
          /\ {v, w} \subseteq proc.removed

\* ========================================================================
\* The SSE source (SSESourceFunc::run): one task reading an event stream.

\* Messages (stream items and control messages) one run handles.
MaxSseEvents == 4

\* The clock of the run, and how far it moves in one step.
MaxSseTime == 105

SseTickStep == 15

\* Duration::from_secs(30) between two deserialization-error reports.
REPORT_WINDOW == 30

\* event.id is None.
NoId == 0

\* An event of the stream: deserializable, not deserializable, or of an
\* event type the source does not read.
SseEventKinds == {"ok", "bad", "filtered"}

\* What on_start finds in the state table: nothing, or the id a checkpoint
\* of an earlier run wrote.
SseRestoredIds == {NoId, -1}

SseControlMessages ==
    {[type |-> "Checkpoint", then_stop |-> FALSE],
     [type |-> "Checkpoint", then_stop |-> TRUE],
     [type |-> "Stop", mode |-> "Graceful"],
     [type |-> "Stop", mode |-> "Immediate"]}

\* run() up to its loop. n, failed, collected, reports and last are
\* history: the messages handled, the deserialization failures, the
\* records collected, the ControlResp::Error sent, the last message.
\* stored is the global table "e".
\* No event with an id has been received.
NoEvent == [id |-> NoId, kind |-> "none"]

NewSseSource(task_index, t, restored) ==
    [pc |-> "running", task_index |-> task_index, last_id |-> restored,
     last_reported_error |-> t, errors |-> 0, stored |-> restored,
     n |-> 0, failed |-> 0, collected |-> 0, reports |-> <<>>,
     last |-> "none", latest |-> NoEvent, ckpt |-> <<>>]

SseInit ==
    /\ nodes = EmptyMap
    /\ workers = EmptyMap
    /\ now = 0
    /\ next_worker = 1
    /\ call = Idle
    /\ stop = StopIdle
    /\ task = NoTask
    /\ proc = NoProc
    /\ resp = NoResp
    /\ outbound = NoOutbound
    /\ \E task_index \in {0, 1} : \E restored \in SseRestoredIds :
          sse = NewSseSource(task_index, 0, restored)

SseOthers == <<nodes, workers, next_worker, call, stop, task, proc, resp, outbound>>

\* A ControlResp::Error as the controller receives it: at is the moment
\* the source starts the send, sent the moment the send has completed.
SseReport(kind, t, count, failed) ==
    [kind |-> kind, at |-> t, sent |-> t, count |-> count, failed |-> failed]

\* The Err arm of deserialize_str: the failure is counted, and reported
\* when the last report is more than 30 s old; the send is an await.
deserialize_failed(s, t) ==
    LET errors == s.errors + 1
        s1 == [s EXCEPT !.errors = errors, !.failed = @ + 1]
    IN  IF t - s.last_reported_error > REPORT_WINDOW
        THEN [s1 EXCEPT !.pc = "reporting",
                        !.reports = Append(@, SseReport("deserialize", t, errors,
                                                         s1.failed))]
        ELSE s1

\* Mutant: the id of an event is kept only when the event passes the
\* filter on the event type.
handle_event_id_after_filter(s, id, kind, t) ==
    LET s1 == [s EXCEPT !.last_id = IF id # NoId /\ kind # "filtered"
                                    THEN id ELSE @,
                        !.n = @ + 1, !.last = kind,
                        !.latest = IF id # NoId
                                   THEN [id |-> id, kind |-> kind] ELSE @]
    IN  CASE kind = "filtered" -> s1
          [] kind = "ok" -> [s1 EXCEPT !.collected = @ + 1]
          [] kind = "bad" -> deserialize_failed(s1, t)

\* Some(Ok(SSE::Event(event))).  latest is history: the latest event
\* received that carried an id.
handle_event(s, id, kind, t) ==
    LET s1 == [s EXCEPT !.last_id = IF id # NoId THEN id ELSE @,
                        !.n = @ + 1, !.last = kind,
                        !.latest = IF id # NoId
                                   THEN [id |-> id, kind |-> kind] ELSE @]
    IN  CASE kind = "filtered" -> s1
          [] kind = "ok" -> [s1 EXCEPT !.collected = @ + 1]
          [] kind = "bad" -> deserialize_failed(s1, t)

\* Mutant: the count is not reset after a report.
report_sent_keeps_count(s, t) ==
    [s EXCEPT !.last_reported_error = t, !.pc = "running",
              !.reports[Len(s.reports)].sent = t]

\* The send of the report has completed: errors = 0 and
\* last_reported_error = Instant::now().
report_sent(s, t) ==
    [s EXCEPT !.errors = 0, !.last_reported_error = t, !.pc = "running",
              !.reports[Len(s.reports)].sent = t]

\* checkpoint() of a task, here of the source: what it does, in order.
checkpoint_calls ==
    <<"StartedCheckpointing", "handle_checkpoint", "FinishedOperatorSetup",
      "state.checkpoint", "FinishedSync", "broadcast Barrier">>

\* What the source does for one Checkpoint message, in order: s.insert of
\* its state, then checkpoint() of the task, which ends with the barrier
\* downstream.  seen is history: the latest event with an id at that time.
sse_checkpoint_steps(s) ==
    <<[kind |-> "state.insert", last_id |-> s.last_id, seen |-> s.latest]>>
        \o [k \in 1..Len(checkpoint_calls) |->
               [kind |-> checkpoint_calls[k], last_id |-> NoId,
                seen |-> NoEvent]]

\* our_handle_control_message: a checkpoint writes the state and takes the
\* checkpoint (which ends the source when then_stop); a stop ends it.
\* ckpt is history: the steps of the latest checkpoint.
sse_handle_control_message(s, msg) ==
    LET s1 == [s EXCEPT !.n = @ + 1]
    IN  IF msg.type = "Checkpoint"
        THEN [s1 EXCEPT !.stored = s.last_id, !.last = "checkpoint",
                        !.ckpt = sse_checkpoint_steps(s),
                        !.pc = IF msg.then_stop THEN "immediate" ELSE @]
        ELSE [s1 EXCEPT !.last = "stop",
                        !.pc = IF msg.mode = "Graceful" THEN "graceful"
                               ELSE "immediate"]

\* The id of the n-th message of the stream, if it carries one.
SseIds == {NoId} \cup (1..MaxSseEvents)

SseEvent(id, kind) ==
    /\ sse.pc = "running"
    /\ sse.task_index = 0
    /\ sse.n < MaxSseEvents
    /\ id \in {NoId, sse.n + 1}
    /\ sse' = handle_event(sse, id, kind, now)
    /\ UNCHANGED <<now, SseOthers>>

SseReported ==
    /\ sse.pc = "reporting"
    /\ sse' = report_sent(sse, now)
    /\ UNCHANGED <<now, SseOthers>>

\* Some(Ok(SSE::Comment(s))).
SseComment ==
    /\ sse.pc = "running"
    /\ sse.task_index = 0
    /\ sse.n < MaxSseEvents
    /\ sse' = [sse EXCEPT !.n = @ + 1, !.last = "comment"]
    /\ UNCHANGED <<now, SseOthers>>

\* Some(Err(e)): the error is reported and the task panics.
SseStreamError ==
    /\ sse.pc = "running"
    /\ sse.task_index = 0
    /\ sse.n < MaxSseEvents
    /\ sse' = [sse EXCEPT !.n = @ + 1, !.last = "error", !.pc = "panicked",
                          !.reports = Append(@, SseReport("read", now, 0,
                                                           sse.failed))]
    /\ UNCHANGED <<now, SseOthers>>

\* None: the socket is closed.
SseClosed ==
    /\ sse.pc = "running"
    /\ sse.task_index = 0
    /\ sse' = [sse EXCEPT !.last = "closed", !.pc = "final"]
    /\ UNCHANGED <<now, SseOthers>>

SseControl(msg) ==
    /\ sse.pc = "running"
    /\ sse.n < MaxSseEvents
    /\ sse' = sse_handle_control_message(sse, msg)
    /\ UNCHANGED <<now, SseOthers>>

\* Time passes, also while a report is being sent.
SseTick ==
    /\ sse.pc \in {"running", "reporting"}
    /\ now + SseTickStep <= MaxSseTime
    /\ now' = now + SseTickStep
    /\ UNCHANGED <<sse, SseOthers>>

NextSse ==
    \/ \E id \in SseIds : \E kind \in SseEventKinds : SseEvent(id, kind)
    \/ SseReported
    \/ SseComment
    \/ SseStreamError
    \/ SseClosed
    \/ \E msg \in SseControlMessages : SseControl(msg)
    \/ SseTick

\* One run of the SSE source.
SpecSse == SseInit /\ [][NextSse]_vars

\* ------------------------------------------------------------ SSE claims

\* The deserialization-error reports of the run, in order.
DeserializeReports == SelectSeq(sse.reports, LAMBDA r : r.kind = "deserialize")

\* The source has left its loop.
SseEnded == sse.pc \in {"final", "panicked", "graceful", "immediate"}

\* C25: any two deserialization-error reports of a run are more than 30 s
\* apart, the count of a report is the number of deserialization failures
\* since the previous report (since the start of run() for the first), and
\* a deserialization failure never ends the source.
C25_RateLimitedReports ==
    sse.pc # "none" =>
        LET reps == DeserializeReports
        IN  /\ \A j, k \in 1..Len(reps) :
                  j < k => reps[k].at - reps[j].sent > REPORT_WINDOW
            /\ \A k \in 1..Len(reps) :
                  reps[k].count =
                      reps[k].failed - (IF k = 1 THEN 0 ELSE reps[k - 1].failed)
            /\ reps # <<>> => reps[1].at > REPORT_WINDOW
            /\ SseEnded => sse.last \in {"closed", "error", "checkpoint", "stop"}
            /\ sse.last = "bad" => sse.pc \in {"running", "reporting"}

\* Two reports in one run, the first one sent while time passed, the
\* second one for more than one failure, and the source still reading.
C25_Witness ==
    /\ sse.pc = "running"
    /\ Len(DeserializeReports) = 2
    /\ DeserializeReports[1].sent > DeserializeReports[1].at
    /\ DeserializeReports[2].count > 1
    /\ sse.errors = 0

\* ========================================================================
\* The REST layer's error responses (rest_utils).

\* tonic::Code.
Codes ==
    {"Ok", "Cancelled", "Unknown", "InvalidArgument", "DeadlineExceeded",
     "NotFound", "AlreadyExists", "PermissionDenied", "ResourceExhausted",
     "FailedPrecondition", "Aborted", "OutOfRange", "Unimplemented",
     "Internal", "Unavailable", "DataLoss", "Unauthenticated"}

\* value.message().
RestMessages == {"", "not found", "unavailable"}

\* Mutant: the arm of Code::Aborted is missing.
status_code_without_aborted(code) ==
    CASE code = "Cancelled" -> "REQUEST_TIMEOUT"
      [] code = "Unknown" -> "INTERNAL_SERVER_ERROR"
      [] code = "InvalidArgument" -> "BAD_REQUEST"
      [] code = "DeadlineExceeded" -> "GATEWAY_TIMEOUT"
      [] code = "NotFound" -> "NOT_FOUND"
      [] code = "AlreadyExists" -> "CONFLICT"
      [] code = "PermissionDenied" -> "FORBIDDEN"
      [] code = "ResourceExhausted" -> "TOO_MANY_REQUESTS"
      [] code = "FailedPrecondition" -> "PRECONDITION_FAILED"
      [] code = "OutOfRange" -> "BAD_REQUEST"
      [] code = "Unimplemented" -> "NOT_IMPLEMENTED"
      [] code = "Internal" -> "INTERNAL_SERVER_ERROR"
      [] code = "Unavailable" -> "SERVICE_UNAVAILABLE"
      [] code = "DataLoss" -> "INTERNAL_SERVER_ERROR"
      [] code = "Unauthenticated" -> "UNAUTHORIZED"
      [] OTHER -> "INTERNAL_SERVER_ERROR"

\* From<tonic::Status> for ErrorResp: the match on value.code().
status_code(code) ==
    CASE code = "Cancelled" -> "REQUEST_TIMEOUT"
      [] code = "Unknown" -> "INTERNAL_SERVER_ERROR"
      [] code = "InvalidArgument" -> "BAD_REQUEST"
      [] code = "DeadlineExceeded" -> "GATEWAY_TIMEOUT"
      [] code = "NotFound" -> "NOT_FOUND"
      [] code = "AlreadyExists" -> "CONFLICT"
      [] code = "PermissionDenied" -> "FORBIDDEN"
      [] code = "ResourceExhausted" -> "TOO_MANY_REQUESTS"
      [] code = "FailedPrecondition" -> "PRECONDITION_FAILED"
      [] code = "Aborted" -> "CONFLICT"
      [] code = "OutOfRange" -> "BAD_REQUEST"
      [] code = "Unimplemented" -> "NOT_IMPLEMENTED"
      [] code = "Internal" -> "INTERNAL_SERVER_ERROR"
      [] code = "Unavailable" -> "SERVICE_UNAVAILABLE"
      [] code = "DataLoss" -> "INTERNAL_SERVER_ERROR"
      [] code = "Unauthenticated" -> "UNAUTHORIZED"
      [] OTHER -> "INTERNAL_SERVER_ERROR"

\* StatusCode::as_u16 of the constants the module uses.
as_u16(name) ==
    CASE name = "BAD_REQUEST" -> 400
      [] name = "UNAUTHORIZED" -> 401
      [] name = "FORBIDDEN" -> 403
      [] name = "NOT_FOUND" -> 404
      [] name = "REQUEST_TIMEOUT" -> 408
      [] name = "CONFLICT" -> 409
      [] name = "PRECONDITION_FAILED" -> 412
      [] name = "TOO_MANY_REQUESTS" -> 429
      [] name = "INTERNAL_SERVER_ERROR" -> 500
      [] name = "NOT_IMPLEMENTED" -> 501
      [] name = "SERVICE_UNAVAILABLE" -> 503
      [] name = "GATEWAY_TIMEOUT" -> 504

\* From<tonic::Status> for ErrorResp.
error_resp_from(value) ==
    [status_code |-> status_code(value.code), message |-> value.message]

\* log_and_map_rest: any other error.
log_and_map_rest ==
    [status_code |-> "INTERNAL_SERVER_ERROR", message |-> "Something went wrong"]

\* IntoResponse for ErrorResp: the status line and the JSON body.
into_response(err) ==
    [status |-> as_u16(err.status_code), body |-> [error |-> err.message]]

\* The REST layer before it has produced an error.
RestIdle == [pc |-> "idle"]

RestInit ==
    /\ nodes = EmptyMap
    /\ workers = EmptyMap
    /\ now = 0
    /\ next_worker = 1
    /\ call = Idle
    /\ stop = StopIdle
    /\ task = NoTask
    /\ proc = NoProc
    /\ sse = NoSse
    /\ resp = RestIdle
    /\ outbound = NoOutbound

RestOthers ==
    <<nodes, workers, now, next_worker, call, stop, task, proc, sse, outbound>>

\* A handler's RPC fails with value and `?` converts it. code is history:
\* the RPC code the error came from.
RestFromStatus(value) ==
    /\ resp.pc \in {"idle", "response"}
    /\ resp' = [pc |-> "error", code |-> value.code,
                err |-> error_resp_from(value)]
    /\ UNCHANGED RestOthers

\* A handler's other error goes through log_and_map_rest.
RestLogAndMap ==
    /\ resp.pc \in {"idle", "response"}
    /\ resp' = [pc |-> "error", code |-> "none", err |-> log_and_map_rest]
    /\ UNCHANGED RestOthers

\* axum turns the handler's ErrorResp into the response.
RestIntoResponse ==
    /\ resp.pc = "error"
    /\ resp' = [pc |-> "response", code |-> resp.code,
                response |-> into_response(resp.err)]
    /\ UNCHANGED RestOthers

NextRest ==
    \/ \E code \in Codes : \E message \in RestMessages :
          RestFromStatus([code |-> code, message |-> message])
    \/ RestLogAndMap
    \/ RestIntoResponse

\* The error responses of the REST layer.
SpecRest == RestInit /\ [][NextRest]_vars

\* ----------------------------------------------------------- REST claims

\* The HTTP status the table gives an RPC code.
TableStatus(code) ==
    IF code \in {"InvalidArgument", "OutOfRange"} THEN 400
    ELSE IF code = "Unauthenticated" THEN 401
    ELSE IF code = "PermissionDenied" THEN 403
    ELSE IF code = "NotFound" THEN 404
    ELSE IF code \in {"AlreadyExists", "Aborted"} THEN 409
    ELSE IF code = "FailedPrecondition" THEN 412
    ELSE IF code = "Cancelled" THEN 408
    ELSE IF code = "DeadlineExceeded" THEN 504
    ELSE IF code = "ResourceExhausted" THEN 429
    ELSE IF code = "Unimplemented" THEN 501
    ELSE IF code = "Unavailable" THEN 503
    ELSE 500

\* C26: the HTTP error response made from an RPC status has the status the
\* table gives the RPC code, every code outside the table's rows 500.
C26_ErrorMapping ==
    /\ (resp.pc = "error" /\ resp.code # "none") =>
          as_u16(resp.err.status_code) = TableStatus(resp.code)
    /\ (resp.pc = "response" /\ resp.code # "none") =>
          resp.response.status = TableStatus(resp.code)

\* Responses were made from Aborted (409) and from Ok, a code without a
\* row of its own (500).
C26_Witness ==
    /\ resp.pc = "response"
    /\ resp.code = "Aborted"
    /\ resp.response.status = 409
    /\ into_response(error_resp_from([code |-> "Ok", message |-> ""])).status = 500

\* ------------------------------------------- node scheduler claims, cont.

\* The step is one of the placement in progress: an RPC of its loop came
\* back, or its loop found no node.
OwnPlacementStep ==
    /\ call'.op = "start_workers"
    /\ call'.job_id = call.job_id /\ call'.run_id = call.run_id
    /\ call'.slots = call.slots
    /\ call'.pre_nodes = call.pre_nodes /\ call'.pre_workers = call.pre_workers
    /\ (call'.rpcs = call.rpcs + 1 \/ call'.pc = "done")
    /\ DOMAIN nodes' = DOMAIN nodes
    /\ \A n \in DOMAIN nodes :
          /\ nodes'[n].last_heartbeat = nodes[n].last_heartbeat
          /\ nodes'[n].task_slots = nodes[n].task_slots
    /\ \A w \in DOMAIN workers : w \in DOMAIN workers' /\ workers'[w] = workers[w]
    /\ \A w \in DOMAIN workers' \ DOMAIN workers : workers'[w].job_id = call.job_id

\* From the capacity check to the return nothing but the placement itself
\* changes the tables or the frame of the call.
NothingElseTakesEffect ==
    Placing => (OwnPlacementStep \/ UNCHANGED <<nodes, workers, call>>)

\* No node's free_slots can underflow: what the loop would take from any
\* node it can choose is there.
TakeSlotsNeverPanics ==
    /\ \A n \in DOMAIN nodes : nodes[n].free_slots >= 0
    /\ Placing =>
          \A n \in MaxByFreeSlots(nodes, PlacementCandidates(nodes, now)) :
              ~take_slots(nodes[n], res_worker_id,
                          SlotsForThisOne(nodes[n].free_slots,
                                          call.to_schedule)).panic

\* C27: a placement is serialized: from its capacity check until it returns
\* no other start_workers, worker_finished, heartbeat_node or register_node
\* takes effect, so start_workers calls never commit more slots than are
\* free: free_slots never underflows and take_slots never panics.
C27_PlacementSerialized ==
    /\ [][NothingElseTakesEffect]_vars
    /\ []TakeSlotsNeverPanics

\* A second start_workers, after one for another job, has committed the
\* slots the first one left free.
C27_Witness ==
    /\ StartDone("Ok")
    /\ \E w \in DOMAIN call.pre_workers : call.pre_workers[w].job_id # call.job_id
    /\ \E n \in DOMAIN nodes :
          /\ nodes[n].free_slots = 0
          /\ Cardinality(DOMAIN nodes[n].scheduled_slots) = 2

\* C28: after the capacity check every iteration of the placement loop
\* finds a node with free_slots > 0 and a heartbeat younger than 30 s, so
\* the unreachable!() of the loop is never executed; also when time passes
\* during the RPCs and for a node whose heartbeat is exactly 30 s old at
\* the expiry check.
C28_LoopFindsNode ==
    Placing => PlacementCandidates(nodes, now) # {}

\* C29: worker w is a key of node n's scheduled_slots exactly when the
\* worker table holds w with node n; also after a start_workers that
\* failed after starting some workers, after a worker_finished that names
\* another node, and after a node was evicted and registered again.
C29_SlotsMatchWorkers ==
    \A n \in DOMAIN nodes : \A w \in WorkerIds :
        w \in DOMAIN nodes[n].scheduled_slots
            <=> (w \in DOMAIN workers /\ workers[w].node_id = n)

\* C30: stop_workers sends a stop RPC to every matching worker whatever
\* the results of the others: when the call returns, no matching worker
\* was left uncontacted because the stop of another one failed.
C30_EveryWorkerContacted ==
    stop.pc = "done" => \A w \in stop.matched : w \in DOMAIN stop.answers

\* ------------------------------------- process scheduler claims, cont.

\* The child of worker w has exited (on its own or killed), or w was sent
\* its shutdown signal.
ExitedOrSent(w) ==
    \/ proc.children[w].state \in {"exited", "reaped", "killed"}
    \/ proc.children[w].signalled

\* C31: when stop_workers returns Ok, every worker of the job (and run)
\* that was in the table when the call started is out of the table and
\* has exited or been sent its shutdown signal, in every interleaving
\* with workers that exit on their own during the call.
C31_StopRemovesAll ==
    (proc.pc = "up" /\ proc.stop.pc = "done" /\ proc.stop.result = "Ok") =>
        \A w \in proc.stop.snapshot : ~InTable(w) /\ ExitedOrSent(w)

\* ------------------------------------------- operator task claims, cont.

\* The steps of a checkpoint, in the order the claim gives them.
CheckpointSteps ==
    <<"StartedCheckpointing", "handle_checkpoint", "FinishedOperatorSetup",
      "state.checkpoint", "FinishedSync", "broadcast Barrier">>

\* The epochs of the barriers received so far.
EpochsSeen == {Log[j].n : j \in {i \in 1..Len(Log) : Log[i].kind = "received barrier"}}

\* Every partition has delivered its barrier of epoch E before place k.
AllMarkedBefore(k, E) ==
    \A p \in DOMAIN task.in_qs : BarriersBefore(k, p, E) # {}

\* The places of the log where step `kind` of the checkpoint of E was taken.
StepsOf(kind, E) == {k \in 1..Len(Log) : Log[k].kind = kind /\ Log[k].n = E}

\* The task's watermark before place k: none (0) until every partition has
\* delivered one, then the least of the latest.
WatermarkBefore(k) ==
    IF \E p \in DOMAIN task.in_qs : WatermarksBefore(k, p) = {} THEN 0
    ELSE CHOOSE w \in {LatestBefore(k, p) : p \in DOMAIN task.in_qs} :
            \A p \in DOMAIN task.in_qs : w <= LatestBefore(k, p)

\* The six steps of the checkpoint of E stand in order from place k on.
CheckpointBlockAt(k, E) ==
    /\ k >= 1
    /\ k + 5 <= Len(Log)
    /\ \A i \in 1..6 : Log[k + i - 1].kind = CheckpointSteps[i]
                        /\ Log[k + i - 1].n = E
    /\ Log[k + 3].idx = WatermarkBefore(k)

\* C32: once the barrier of epoch E was marked by every input partition the
\* task emits StartedCheckpointing, calls handle_checkpoint, emits
\* FinishedOperatorSetup, snapshots the state with the current watermark,
\* emits FinishedSync and broadcasts Barrier(E), in this order, each once
\* per epoch and none before the last barrier has arrived.
C32_CheckpointSteps ==
    task.pc # "none" =>
        \A E \in EpochsSeen :
            /\ \A i \in 1..6 : Cardinality(StepsOf(CheckpointSteps[i], E)) <= 1
            /\ \A i \in 1..6 : \A k \in StepsOf(CheckpointSteps[i], E) :
                  /\ AllMarkedBefore(k, E)
                  /\ CheckpointBlockAt(k - i + 1, E)
            /\ AllMarkedBefore(Len(Log) + 1, E) =>
                  \E k \in 1..Len(Log) : CheckpointBlockAt(k, E)

\* Two partitions have delivered watermarks and then their barriers: the
\* checkpoint was taken with the task's watermark.
C32_Witness ==
    /\ task.pc # "none"
    /\ Cardinality(DOMAIN task.in_qs) = 2
    /\ \E k \in 1..Len(Log) : \E E \in EpochsSeen :
          CheckpointBlockAt(k, E) /\ Log[k + 3].idx > 0

\* The first barrier of epoch E arrived at place j of the log.
FirstBarrierAt(j, E) ==
    /\ j \in 1..Len(Log)
    /\ Log[j].kind = "received barrier" /\ Log[j].n = E
    /\ \A i \in 1..(j - 1) : ~(Log[i].kind = "received barrier" /\ Log[i].n = E)

\* C33: for every epoch E the task emits StartedAlignment exactly once,
\* when the first barrier of E arrives on any partition and before
\* StartedCheckpointing of E; later barriers of E emit none.
C33_StartedAlignmentOnce ==
    task.pc # "none" =>
        /\ \A E \in EpochsSeen :
              /\ Cardinality(StepsOf("StartedAlignment", E)) = 1
              /\ \A k \in StepsOf("StartedAlignment", E) :
                    /\ FirstBarrierAt(k - 1, E)
                    /\ \A c \in StepsOf("StartedCheckpointing", E) : k < c
        /\ \A k \in 1..Len(Log) :
              Log[k].kind = "StartedAlignment" => Log[k].n \in EpochsSeen

\* Two partitions have both delivered the barriers of two epochs.
C33_Witness ==
    /\ task.pc # "none"
    /\ Cardinality(DOMAIN task.in_qs) = 2
    /\ Cardinality(EpochsSeen) = 2
    /\ \A E \in EpochsSeen :
          /\ AllMarkedBefore(Len(Log) + 1, E)
          /\ Cardinality(StepsOf("StartedAlignment", E)) = 1


\* ---- C35: Stop on one partition while others wait for a barrier ----

\* The partitions whose Stop has been received.
StoppedPartitions ==
    {p \in Partitions(task.shape) :
        \E k \in 1..Len(task.log) :
            task.log[k].kind = "received Stop" /\ task.log[k].idx = p}

\* Every partition other than the stopped ones is parked for the epoch in
\* flight: the only barriers still missing are those of stopped partitions.
OnlyStoppedMissing ==
    /\ task.pc = "running"
    /\ StoppedPartitions # {}
    /\ task.blocked = Partitions(task.shape) \ StoppedPartitions
    /\ task.blocked # {}

\* C35: when Stop has arrived on a partition while the other partitions are
\* parked for the barrier of epoch E, the stopped partition counts as having
\* delivered its barrier: alignment of E completes and no partition is left
\* parked, so the task is never left with every input stopped or parked.
C35_StopCompletesAlignment == ~OnlyStoppedMissing


\* ---- C34: parking of partitions that delivered their barrier ----

\* After a dispatch the parked partitions are those the counter reports as
\* blocked, none of them is in the reader, and none is parked once the
\* counter is all clear.
ParkedAsCounted ==
    task.pc = "running" =>
        /\ task.blocked = {p \in Partitions(task.shape) :
                              is_blocked(task.counter, p)}
        /\ task.blocked \cap task.sel = {}
        /\ (all_clear(task.counter) => task.blocked = {})

\* No dispatch takes an item of a parked partition.
ParkedNeverPolled ==
    task.pc = "running" =>
        \A p \in task.blocked : task'.pos[p] = task.pos[p]

\* A partition is parked and every other partition has delivered Stop or
\* EndOfData, after which its channel carries nothing: no dispatch can
\* follow, and the parked partition is never read again.
ParkedForEver ==
    /\ task.pc = "running"
    /\ task.blocked # {}
    /\ \A q \in Partitions(task.shape) \ task.blocked : q \in task.closed

\* C34: after each dispatch a partition is parked exactly when the counter
\* reports it blocked, a parked partition is never polled, the dispatch that
\* completes the epoch re-admits every parked partition, and every parked
\* partition is read again: it is never left parked with nothing to wait for.
C34_ParkedAndReadmitted ==
    /\ [](ParkedAsCounted /\ ~ParkedForEver)
    /\ [][ParkedNeverPolled]_vars


\* ---- C36: what a received watermark sets off ----

\* The places of the log where the state backend was told of a watermark.
Notifications ==
    {k \in 1..Len(Log) : Log[k].kind = "state.handle_watermark"}

\* C36: the state backend is notified and handle_watermark is called only
\* when the minimum over the input partitions has advanced, so the
\* watermarks that go downstream strictly increase; and each notification
\* of the state backend is followed by handle_watermark for the same value.
C36_OnlyWhenAdvanced ==
    task.pc # "none" =>
        /\ \A j, k \in Notifications : j < k => Log[j].n < Log[k].n
        /\ \A j, k \in Emissions : j < k => Log[j].n < Log[k].n
        /\ \A k \in Notifications :
              /\ k + 1 <= Len(Log)
              /\ Log[k + 1].kind = "broadcast Watermark"
              /\ Log[k + 1].n = Log[k].n


\* ------------------------------------------------------------------------
\* The StartWorker stream of NodeScheduler::start_workers.
\* ------------------------------------------------------------------------

\* The largest number of full frames of a binary.
MaxParts == 3

\* const NODE_PART_SIZE: usize = 2 * 1024 * 1024.
NODE_PART_SIZE == 2 * 1024 * 1024

\* The lengths of the binary: around every multiple of the frame size.
BinarySizes ==
    {n \in {k * NODE_PART_SIZE + d : k \in 0..MaxParts, d \in {-1, 0, 1}} :
        n >= 0}

\* The nodes the stream may go to (StartWorkerHeader.node_id).
OutboundNodeIds == {1, 2}

\* The header built before the stream: the request's job and run, the
\* slots taken on the node, the node, and binary.len().
StartWorkerHeader(job_id, run_id, slots, node_id, binary_len) ==
    [msg |-> "Header", job_id |-> job_id, run_id |-> run_id,
     slots |-> slots, node_id |-> node_id, binary_size |-> binary_len]

\* A data frame; data is the slice binary[from..to) of the binary.
StartWorkerData(part, from, to, has_more) ==
    [msg |-> "Data", part |-> part, from |-> from, to |-> to,
     has_more |-> has_more]

\* The stream as created: nothing yielded yet.  binary_len is binary.len(),
\* off is the position of the chunks() iterator, frames is what the stream
\* has yielded.
NewOutbound(header, binary_len) ==
    [pc |-> "created", header |-> header, binary_len |-> binary_len,
     part |-> 0, sent |-> 0, off |-> 0, frames |-> <<>>]

OutboundInit ==
    /\ nodes = EmptyMap
    /\ workers = EmptyMap
    /\ now = 0
    /\ next_worker = 1
    /\ call = Idle
    /\ stop = StopIdle
    /\ task = NoTask
    /\ proc = NoProc
    /\ sse = NoSse
    /\ resp = NoResp
    /\ \E req \in StartReqs, slots \in TaskSlots, node_id \in OutboundNodeIds,
          binary_len \in BinarySizes :
          outbound = NewOutbound(
              StartWorkerHeader(req[1], req[2], slots, node_id, binary_len),
              binary_len)

OutboundOthers ==
    <<nodes, workers, now, next_worker, call, stop, task, proc, sse, resp>>

\* yield header; then let mut part = 0; let mut sent = 0.
OutboundHeader ==
    /\ outbound.pc = "created"
    /\ outbound' = [outbound EXCEPT !.pc = "chunks",
                                    !.frames = Append(@, outbound.header),
                                    !.part = 0, !.sent = 0]
    /\ UNCHANGED OutboundOthers

\* One turn of `for chunk in binary.chunks(NODE_PART_SIZE)`: the next chunk
\* is NODE_PART_SIZE bytes, or what is left of the binary.
next_chunk(o) ==
    LET to == Min(o.off + NODE_PART_SIZE, o.binary_len)
        sent == o.sent + (to - o.off)
    IN  [o EXCEPT !.sent = sent,
                  !.frames = Append(@, StartWorkerData(o.part, o.off, to,
                                                       sent < o.binary_len)),
                  !.part = o.part + 1,
                  !.off = to]

OutboundData ==
    /\ outbound.pc = "chunks"
    /\ outbound.off < outbound.binary_len
    /\ outbound' = next_chunk(outbound)
    /\ UNCHANGED OutboundOthers

\* chunks() is exhausted: the stream ends.
OutboundEnd ==
    /\ outbound.pc = "chunks"
    /\ outbound.off >= outbound.binary_len
    /\ outbound' = [outbound EXCEPT !.pc = "ended"]
    /\ UNCHANGED OutboundOthers

NextOutbound == OutboundHeader \/ OutboundData \/ OutboundEnd

\* The stream of one StartWorker call, from its creation to its end.
SpecOutbound == OutboundInit /\ [][NextOutbound]_vars

\* ---- C37: the frames of the stream ----

Frames == outbound.frames

DataFrames == {i \in 1..Len(Frames) : Frames[i].msg = "Data"}

\* The header comes first, and the data frames are numbered from 0, hold at
\* most NODE_PART_SIZE bytes each, follow one another in the binary from
\* its first byte, with has_more on every frame but the last.
WellFramed ==
    /\ Len(Frames) >= 1
    /\ Frames[1] = outbound.header
    /\ Frames[1].binary_size = outbound.binary_len
    /\ DataFrames = 2..Len(Frames)
    /\ \A i \in DataFrames :
          /\ Frames[i].part = i - 2
          /\ Frames[i].to - Frames[i].from <= NODE_PART_SIZE
          /\ Frames[i].from = IF i = 2 THEN 0 ELSE Frames[i - 1].to
          /\ Frames[i].has_more = (i < Len(Frames))

\* The stream ends with a data frame without has_more that reaches the end
\* of the binary.
EndsWithLastFrame ==
    /\ Len(Frames) >= 2
    /\ Frames[Len(Frames)].msg = "Data"
    /\ Frames[Len(Frames)].has_more = FALSE
    /\ Frames[Len(Frames)].to = outbound.binary_len

\* C37: for every binary the stream that has ended is the header followed
\* by data frames numbered 0, 1, 2, ... of at most 2 MiB each whose data
\* concatenated is the binary, has_more is true on every frame but the
\* last, and the last item of the stream is a data frame with has_more
\* false.
C37_StreamFrames ==
    outbound.pc = "ended" => (WellFramed /\ EndsWithLastFrame)


\* ---- C38: how often the terminating marker goes downstream ----

\* The places of the log where kind was done.
PlacesOf(kind) == {k \in 1..Len(Log) : Log[k].kind = kind}

TaskEnded == task.pc \in {"stopped", "finished"}

\* C38: a task that has terminated on Stop or EndOfData has sent that
\* marker downstream exactly once; a task that has terminated on a barrier
\* with then_stop has sent the barrier of that epoch downstream once.
C38_MarkerSentOnce ==
    /\ (TaskEnded /\ ~StoppedOnBarrier) =>
          Cardinality(PlacesOf("broadcast Stop")
                        \cup PlacesOf("broadcast EndOfData")) = 1
    /\ StoppedOnBarrier =>
          Cardinality({k \in PlacesOf("broadcast Barrier") :
                          Log[k].n = Log[Len(Log) - 2].n}) = 1


\* ------------------------------------------------------------------------
\* A co-process task: two logical inputs of any numbers of partitions.
\* ------------------------------------------------------------------------

\* Messages the input queues of the co-process task hold in all, at most.
MaxCoMsgs == 2

\* in_qs of a task with two handlers: the partitions of each logical input.
CoShapes == {<<1, 1>>, <<1, 2>>, <<2, 1>>}

\* start_fn for a task with two handlers; the event loop is that of every
\* task.
TaskInitCo ==
    /\ nodes = EmptyMap
    /\ workers = EmptyMap
    /\ now = 0
    /\ next_worker = 1
    /\ call = Idle
    /\ stop = StopIdle
    /\ proc = NoProc
    /\ sse = NoSse
    /\ resp = NoResp
    /\ outbound = NoOutbound
    /\ \E shape \in CoShapes :
       \E n0 \in 0..MaxCoMsgs : \E n1 \in 0..(MaxCoMsgs - n0) :
       \E n2 \in 0..(IF 2 \in Partitions(shape)
                     THEN MaxCoMsgs - n0 - n1 ELSE 0) :
       \E q0 \in [1..n0 -> Alphabet], q1 \in [1..n1 -> Alphabet],
          q2 \in [1..n2 -> Alphabet] :
          LET qs == [i \in Partitions(shape) |->
                        WithEpochs(CASE i = 0 -> q0 [] i = 1 -> q1
                                     [] OTHER -> q2)]
          IN  /\ \A i \in DOMAIN qs : ChannelOrder(qs[i])
              /\ SameBarriers(qs)
              /\ task = NewTask(shape, qs)

\* One co-process task with inputs, from start_fn to the end of its loop.
SpecCoTask == TaskInitCo /\ [][NextTask]_vars

\* ---- C39: routing by logical input ----

\* The logical input partition idx belongs to: in_qs is flattened, so the
\* partitions of input 0 come first.
GroupOf(shape, idx) == IF idx < shape[1] THEN 0 ELSE 1

\* C39: in a co-process task a record is handled by process_left when its
\* partition belongs to logical input 0 and by process_right when it
\* belongs to logical input 1, whatever the numbers of partitions of the
\* two inputs, and the task never panics in the routing.
C39_RoutedByGroup ==
    (task.pc # "none" /\ Len(task.shape) = 2) =>
        /\ task.pc # "panic"
        /\ \A k \in 1..Len(Log) :
              /\ Log[k].kind = "process_left" =>
                    GroupOf(task.shape, Log[k].idx) = 0
              /\ Log[k].kind = "process_right" =>
                    GroupOf(task.shape, Log[k].idx) = 1


\* ---- C40: the state an SSE checkpoint writes ----

\* The places of the steps of the latest checkpoint where kind was done.
CkptPlaces(kind) ==
    {k \in 1..Len(sse.ckpt) : sse.ckpt[k].kind = kind}

\* C40: the state written for a Checkpoint message holds as last_id the id
\* of the latest event with an id received before the message was handled,
\* whether or not that event passed the filter or could be deserialized,
\* and it is written before the barrier goes downstream.
C40_CheckpointHoldsLastId ==
    (sse.pc # "none" /\ sse.ckpt # <<>>) =>
        /\ CkptPlaces("state.insert") = {1}
        /\ CkptPlaces("broadcast Barrier") # {}
        /\ \A k \in CkptPlaces("broadcast Barrier") : 1 < k
        /\ sse.ckpt[1].seen # NoEvent =>
              sse.ckpt[1].last_id = sse.ckpt[1].seen.id

\* A checkpoint was taken after an event that passed the filter and a
\* later one, with an id, that was filtered out; the state written holds
\* the id of the later one.
C40_Witness ==
    /\ sse.pc # "none"
    /\ sse.ckpt # <<>>
    /\ sse.collected >= 1
    /\ sse.ckpt[1].seen.kind = "filtered"
    /\ sse.ckpt[1].seen.id >= 2
    /\ sse.ckpt[1].last_id = sse.ckpt[1].seen.id

====
